---------------------------- MODULE Spec2Model ----------------------------
(***************************************************************************)
(* A model of wonk's policy combiner: the wildcard-aware set reduction of  *)
(* models.py, the statement merging of policy.py (minify, grouped_actions, *)
(* grouped_resources) and combine with its splitter and bin packer.        *)
(*                                                                         *)
(* Strings are sequences of code points, so that case folding, the         *)
(* case-sensitive order of sorted() and the regular expressions built by   *)
(* collect_wildcard_matches are computed and not assumed.                  *)
(***************************************************************************)
EXTENDS Integers, Sequences, FiniteSets, TLC

VARIABLES
    pc,                   \* position of the operation under study
    items,                \* reduce: the set handed to collect_wildcard_matches
    new_items,            \* reduce: what collect_wildcard_matches returned
    again,                \* reduce: what it returns on its own result
    internal_statements,  \* minify: the statements of the loop
    input_statements,     \* minify: the statements parsed from the documents
    this_changed,         \* minify: the loop flag
    iterations,           \* minify: completed loop iterations
    reminified,           \* minify: what it returns on its own output
    policies,             \* minify, combine: the input documents
    new_policy,           \* combine: the merged document
    packed_list,          \* combine: the statements handed to the packer
    packed_sets,          \* combine: the bins the packer returned
    combined,             \* combine: the outcome
    pack_call,            \* pack_statements: its arguments
    pack_results,         \* pack_statements: what it returned or raised
    render_data,          \* Policy.render: the document
    render_packed,        \* Policy.render: what it returned or raised
    supplied,             \* Policy: two lists of the same statements
    built,                \* Policy: the documents built from them
    write_call,           \* write_policy_set: base_name and policies
    output_dir,           \* write_policy_set: the files of the directory
    output_dir_before,    \* write_policy_set: the files before the last call
    write_outcome,        \* write_policy_set: what the last call did
    parse_statement,      \* Statement: the mapping found in a document
    parsed,               \* Statement: its fields, or the error raised
    objects,              \* grouped_*: the InternalStatement objects, by reference
    objects_before,       \* grouped_*: the objects before the call
    group_call,           \* grouped_*: the statements and references handed in
    group_result,         \* grouped_*: the flag and the list returned
    split_call,           \* split_statement: the statement and max_statement_size
    splitted,             \* split_statement: the statements it yields
    as_json,              \* Statement: the mapping as_json() returned
    parsed_again          \* Statement: the fields of Statement(as_json)

vars == <<pc, items, new_items, again, internal_statements, input_statements,
          this_changed, iterations, reminified, policies, new_policy,
          packed_list, packed_sets, combined, pack_call, pack_results,
          render_data, render_packed,
          supplied, built,
          write_call, output_dir, output_dir_before, write_outcome,
          parse_statement, parsed,
          objects, objects_before, group_call, group_result,
          split_call, splitted,
          as_json, parsed_again>>

reduceVars == <<items, new_items, again>>
minifyVars == <<internal_statements, input_statements, this_changed, iterations,
                reminified>>
combineVars == <<policies, new_policy, packed_list, packed_sets, combined>>
packVars == <<pack_call, pack_results>>
renderVars == <<render_data, render_packed>>
documentVars == <<supplied, built>>
writeVars == <<write_call, output_dir, output_dir_before, write_outcome>>
parseVars == <<parse_statement, parsed>>
groupVars == <<objects, objects_before, group_call, group_result>>
splitVars == <<split_call, splitted>>
jsonVars == <<as_json, parsed_again>>

(***************************************************************************)
(* Bounds of the model.                                                    *)
(***************************************************************************)
MaxLen == 2        \* longest string of the reduce universe
MaxItems == 2      \* largest set drawn from the reduce universe

(***************************************************************************)
(* Characters and strings.                                                 *)
(***************************************************************************)
Star == 42         \* "*"
Dot == 46          \* "."
\* the characters of the reduce universe: "*", ".", "A" and "a"
Alphabet == {Star, Dot, 65, 97}

\* str.casefold() on one ASCII code point
casefold_char(c) == IF c >= 65 /\ c <= 90 THEN c + 32 ELSE c

\* str.casefold()
casefold(s) == [i \in 1..Len(s) |-> casefold_char(s[i])]

RECURSIVE FirstDifference(_, _, _, _)
\* the first position in lo..hi at which a and b differ, when there is one
FirstDifference(a, b, lo, hi) ==
    IF lo = hi THEN lo
    ELSE LET mid == (lo + hi) \div 2
         IN  IF SubSeq(a, lo, mid) = SubSeq(b, lo, mid)
             THEN FirstDifference(a, b, mid + 1, hi)
             ELSE FirstDifference(a, b, lo, mid)

\* Python's str < str: code point by code point, a proper prefix first
StrLess(a, b) ==
    LET n == IF Len(a) < Len(b) THEN Len(a) ELSE Len(b)
    IN  IF n > 0 /\ a[1] # b[1] THEN a[1] < b[1]
        ELSE IF SubSeq(a, 1, n) = SubSeq(b, 1, n) THEN Len(a) < Len(b)
        ELSE LET i == FirstDifference(a, b, 1, n) IN a[i] < b[i]

RECURSIVE SortedStrs(_)
\* sorted() of a set of strings
SortedStrs(S) ==
    IF S = {} THEN <<>>
    ELSE LET m == CHOOSE x \in S : \A y \in S \ {x} : StrLess(x, y)
         IN  <<m>> \o SortedStrs(S \ {m})

SeqToSet(q) == {q[i] : i \in 1..Len(q)}

\* a pattern compiled from the item as written, "*" left as it is
StrReplaceStar_Unreplaced(s) == s

RECURSIVE StrReplaceStar(_)
\* item.replace("*", ".*")
StrReplaceStar(s) ==
    IF s = <<>> THEN <<>>
    ELSE (IF Head(s) = Star THEN <<Dot, Star>> ELSE <<Head(s)>>)
         \o StrReplaceStar(Tail(s))

\* one atom of a compiled pattern against one character, under re.IGNORECASE
AtomMatches(atom, c) ==
    \/ atom = Dot
    \/ casefold_char(atom) = casefold_char(c)

RECURSIVE RegexMatchFrom(_, _, _, _)
\* re.compile(rf"^{pattern_string}$", re.IGNORECASE).match(text), from pattern
\* position i and text position j: an atom, or an atom followed by "*"
RegexMatchFrom(re, i, text, j) ==
    IF i > Len(re) THEN j > Len(text)
    ELSE IF i + 1 <= Len(re) /\ re[i + 1] = Star
         THEN \/ RegexMatchFrom(re, i + 2, text, j)
              \/ /\ j <= Len(text)
                 /\ AtomMatches(re[i], text[j])
                 /\ RegexMatchFrom(re, i, text, j + 1)
         ELSE /\ j <= Len(text)
              /\ AtomMatches(re[i], text[j])
              /\ RegexMatchFrom(re, i + 1, text, j + 1)

\* the pattern compiled for a wildcard item, matched against item text
PatternMatches(pattern_item, text) ==
    RegexMatchFrom(StrReplaceStar(pattern_item), 1, text, 1)

(***************************************************************************)
(* models.py: the canonicalizer.  A value is either a bare string or a     *)
(* list of strings, as in Python.                                          *)
(***************************************************************************)
BareStr(s) == [kind |-> "str", elems |-> <<s>>]
StrList(q) == [kind |-> "list", elems |-> q]

\* set(value) on a bare string: its characters
to_set_OfCharacters(value) ==
    IF value.kind = "str"
    THEN {<<value.elems[1][i]>> : i \in 1..Len(value.elems[1])}
    ELSE SeqToSet(value.elems)

\* to_set
to_set(value) == SeqToSet(value.elems)

\* the last of the sorted spellings of each key instead of the first
deduped_items_LastSpelling(its) ==
    LET unique == [k \in {casefold(x) : x \in its} |->
                      {x \in its : casefold(x) = k}]
        keys == SortedStrs(DOMAIN unique)
    IN  [i \in 1..Len(keys) |->
            SortedStrs(unique[keys[i]])[Cardinality(unique[keys[i]])]]

\* the keys taken in descending order
deduped_items_Descending(its) ==
    LET unique == [k \in {casefold(x) : x \in its} |->
                      {x \in its : casefold(x) = k}]
        keys == SortedStrs(DOMAIN unique)
    IN  [i \in 1..Len(keys) |->
            SortedStrs(unique[keys[Len(keys) + 1 - i]])[1]]

\* deduped_items: one item per casefolded key, the first of the sorted
\* spellings, in the order of the sorted casefolded keys
deduped_items(its) ==
    LET unique == [k \in {casefold(x) : x \in its} |->
                      {x \in its : casefold(x) = k}]
        keys == SortedStrs(DOMAIN unique)
    IN  [i \in 1..Len(keys) |-> SortedStrs(unique[keys[i]])[1]]

\* the patterns dict after the loop over the set in iteration order `order`:
\* casefolded wildcard item -> the spelling whose pattern was stored last
patterns_of(order) ==
    LET wild == {i \in 1..Len(order) :
                    \E k \in 1..Len(order[i]) : order[i][k] = Star}
    IN  [k \in {casefold(order[i]) : i \in wild} |->
            order[CHOOSE i \in wild :
                      /\ casefold(order[i]) = k
                      /\ \A j \in wild : casefold(order[j]) = k => j <= i]]

\* the test of the comprehension: some other pattern matches the item
Shadowed(item, patterns) ==
    \E pattern_item \in DOMAIN patterns :
        /\ pattern_item # casefold(item)
        /\ PatternMatches(patterns[pattern_item], item)

RECURSIVE KeepUnshadowed(_, _)
KeepUnshadowed(q, patterns) ==
    IF q = <<>> THEN <<>>
    ELSE (IF Shadowed(Head(q), patterns) THEN <<>> ELSE <<Head(q)>>)
         \o KeepUnshadowed(Tail(q), patterns)

\* collect_wildcard_matches on a set iterated in the order `order`
collect_wildcard_matches(order) ==
    IF Len(order) = 1 THEN BareStr(order[1])
    ELSE StrList(KeepUnshadowed(deduped_items(SeqToSet(order)),
                                patterns_of(order)))

\* the iteration orders a Python set of these elements can have
Orderings(S) ==
    {q \in [1..Cardinality(S) -> S] : SeqToSet(q) = S}

(***************************************************************************)
(* The reduce universe: every string over Alphabet of length 1..MaxLen,    *)
(* and the sets the repository's tests and documentation use.              *)
(***************************************************************************)
RECURSIVE StringsOfLen(_)
StringsOfLen(n) ==
    IF n = 0 THEN {<<>>}
    ELSE {<<c>> \o s : c \in Alphabet, s \in StringsOfLen(n - 1)}

Universe == UNION {StringsOfLen(n) : n \in 1..MaxLen}

RECURSIVE SetsUpTo(_)
SetsUpTo(n) ==
    IF n = 0 THEN {{}}
    ELSE LET smaller == SetsUpTo(n - 1)
         IN  smaller \cup {s \cup {x} : s \in smaller, x \in Universe}

svc_spam == <<115, 118, 99, 58, 115, 112, 97, 109>>          \* "svc:spam"
svc_star == <<115, 118, 99, 58, 42>>                          \* "svc:*"
svc_eggs == <<115, 118, 99, 58, 101, 103, 103, 115>>          \* "svc:eggs"
s3_getfoo_star == <<115, 51, 58, 103, 101, 116, 102, 111, 111, 42>>  \* "s3:getfoo*"
s3_GetFoo_star == <<115, 51, 58, 71, 101, 116, 70, 111, 111, 42>>    \* "s3:GetFoo*"

ExampleSets ==
    { {svc_spam, svc_star, svc_eggs},
      {s3_getfoo_star, s3_GetFoo_star} }

\* the non-empty sets of at most MaxItems strings, and the example sets
IsReduceInput(S) ==
    \/ \E s \in SetsUpTo(MaxItems - 1) : \E x \in Universe : S = s \cup {x}
    \/ S \in ExampleSets

(***************************************************************************)
(* Specification of reduce: draw a set, reduce it in some iteration order, *)
(* then reduce the result again.                                           *)
(***************************************************************************)
Idle == "idle"

ReduceInit ==
    /\ pc = "reduce"
    /\ IsReduceInput(items)
    /\ new_items = Idle
    /\ again = Idle
    /\ internal_statements = Idle
    /\ input_statements = Idle
    /\ this_changed = Idle
    /\ iterations = 0
    /\ reminified = Idle
    /\ policies = Idle
    /\ new_policy = Idle
    /\ packed_list = Idle
    /\ packed_sets = Idle
    /\ combined = Idle
    /\ pack_call = Idle
    /\ pack_results = Idle
    /\ render_data = Idle
    /\ render_packed = Idle
    /\ supplied = Idle
    /\ built = Idle
    /\ write_call = Idle
    /\ output_dir = Idle
    /\ output_dir_before = Idle
    /\ write_outcome = Idle
    /\ parse_statement = Idle
    /\ parsed = Idle
    /\ objects = Idle
    /\ objects_before = Idle
    /\ group_call = Idle
    /\ group_result = Idle
    /\ split_call = Idle
    /\ splitted = Idle
    /\ as_json = Idle
    /\ parsed_again = Idle

Reduce ==
    /\ pc = "reduce"
    /\ \E order \in Orderings(items) :
           new_items' = collect_wildcard_matches(order)
    /\ pc' = "reduced"
    /\ UNCHANGED <<items, again, minifyVars, combineVars, packVars, renderVars,
                   documentVars, writeVars, parseVars,
                   groupVars, splitVars, jsonVars>>

ReduceAgain ==
    /\ pc = "reduced"
    /\ \E order \in Orderings(to_set(new_items)) :
           again' = collect_wildcard_matches(order)
    /\ pc' = "reduced_again"
    /\ UNCHANGED <<items, new_items, minifyVars, combineVars, packVars,
                   renderVars, documentVars, writeVars,
                   parseVars, groupVars, splitVars, jsonVars>>

ReduceNext == Reduce \/ ReduceAgain

SpecReduce == ReduceInit /\ [][ReduceNext]_vars


(***************************************************************************)
(* Statements.  A raw statement is the mapping found in a document: its    *)
(* Action or NotAction value, its Resource or NotResource value, its Sid   *)
(* (the empty string when it has none) and the rest of its keys.  An       *)
(* InternalStatement is what minify works on.                              *)
(***************************************************************************)
Effect == <<69, 102, 102, 101, 99, 116>>     \* "Effect"
Allow == <<65, 108, 108, 111, 119>>          \* "Allow"
Deny == <<68, 101, 110, 121>>                \* "Deny"

\* the general reduction, without the rule for "*"
canonicalize_resources_NoShortcut(resources) ==
    collect_wildcard_matches(SortedStrs(resources))

\* canonicalize_resources; the set is iterated in sorted order, the result of
\* collect_wildcard_matches being the same for every iteration order
canonicalize_resources(resources) ==
    IF <<Star>> \in resources THEN BareStr(<<Star>>)
    ELSE collect_wildcard_matches(SortedStrs(resources))

\* InternalStatement(statement): Sid dropped, actions coerced to a set,
\* resources canonicalized
InternalStatement(statement) ==
    [action_key |-> statement.action_key,
     action_value |-> to_set(statement.action),
     resource_key |-> statement.resource_key,
     resource_value |-> canonicalize_resources(to_set(statement.resource)),
     rest |-> statement.rest]

\* InternalStatement.render(): rest, the reduced actions and the resources
statement_render(statement) ==
    [action_key |-> statement.action_key,
     action |-> collect_wildcard_matches(SortedStrs(statement.action_value)),
     resource_key |-> statement.resource_key,
     resource |-> statement.resource_value,
     sid |-> <<>>,
     rest |-> statement.rest]

\* a key that leaves out the rest of the statement
grouping_for_actions_WithoutRest(statement) ==
    <<statement.action_key, statement.resource_key, statement.resource_value>>

grouping_for_actions(statement) ==
    <<statement.action_key, statement.resource_key, statement.resource_value,
      statement.rest>>

\* a key that leaves out the action key of the statement
grouping_for_resources_WithoutKey(statement) ==
    <<statement.action_value, statement.resource_key, statement.rest>>

grouping_for_resources(statement) ==
    <<statement.action_key, statement.action_value, statement.resource_key,
      statement.rest>>

RECURSIVE grouped_actions_loop(_, _, _)
\* the loop of grouped_actions: statement_sets in insertion order, the first
\* statement of a group updated in place
grouped_actions_loop(statements, statement_sets, changed) ==
    IF statements = <<>>
    THEN [changed |-> changed, statements |-> statement_sets]
    ELSE LET statement == Head(statements)
             group == grouping_for_actions(statement)
             found == {i \in 1..Len(statement_sets) :
                          grouping_for_actions(statement_sets[i]) = group}
         IN  IF found = {}
             THEN grouped_actions_loop(Tail(statements),
                                       Append(statement_sets, statement), changed)
             ELSE LET i == CHOOSE i \in found : TRUE
                      existing_item == statement_sets[i]
                      new_action_value ==
                          existing_item.action_value \cup statement.action_value
                  IN  IF existing_item.action_value # new_action_value
                      THEN grouped_actions_loop(
                               Tail(statements),
                               [statement_sets EXCEPT
                                    ![i].action_value = new_action_value],
                               TRUE)
                      ELSE grouped_actions_loop(Tail(statements),
                                                statement_sets, changed)

grouped_actions(statements) == grouped_actions_loop(statements, <<>>, FALSE)

RECURSIVE grouped_resources_loop(_, _, _)
\* the loop of grouped_resources
grouped_resources_loop(statements, statement_sets, changed) ==
    IF statements = <<>>
    THEN [changed |-> changed, statements |-> statement_sets]
    ELSE LET statement == Head(statements)
             group == grouping_for_resources(statement)
             found == {i \in 1..Len(statement_sets) :
                          grouping_for_resources(statement_sets[i]) = group}
         IN  IF found = {}
             THEN grouped_resources_loop(Tail(statements),
                                         Append(statement_sets, statement), changed)
             ELSE LET i == CHOOSE i \in found : TRUE
                      existing_item == statement_sets[i]
                      new_resource_value ==
                          canonicalize_resources(
                              to_set(existing_item.resource_value)
                                  \cup to_set(statement.resource_value))
                  IN  IF existing_item.resource_value # new_resource_value
                      THEN grouped_resources_loop(
                               Tail(statements),
                               [statement_sets EXCEPT
                                    ![i].resource_value = new_resource_value],
                               TRUE)
                      ELSE grouped_resources_loop(Tail(statements),
                                                  statement_sets, changed)

grouped_resources(statements) == grouped_resources_loop(statements, <<>>, FALSE)

\* a flag that no pass ever clears
cleared_unless_Never(flag, changed) == flag

\* "if not changed: this_changed = False"
cleared_unless(flag, changed) == IF ~changed THEN FALSE ELSE flag

\* policy.statement as a list: a document may hold one statement that is not
\* wrapped in a list (is_dict, the statement kept as the only member)
statement_list(policy) ==
    IF policy.is_dict THEN <<policy.statement[1]>> ELSE policy.statement

RECURSIVE flattened(_)
\* the two for loops of minify: every statement of every document, parsed
flattened(documents) ==
    IF documents = <<>> THEN <<>>
    ELSE LET statements == statement_list(Head(documents))
         IN  [i \in 1..Len(statements) |-> InternalStatement(statements[i])]
             \o flattened(Tail(documents))

RECURSIVE minify_loop(_)
\* the while loop of minify from the top of one iteration
minify_loop(statements) ==
    LET acted == grouped_actions(statements)
        after_actions == cleared_unless(TRUE, acted.changed)
        resourced == grouped_resources(acted.statements)
        after_resources == cleared_unless(after_actions, resourced.changed)
    IN  IF after_resources THEN minify_loop(resourced.statements)
        ELSE resourced.statements

minify(documents) == minify_loop(flattened(documents))

\* Policy(statement=[...]): a document holding a list of raw statements
Policy(statements) == [is_dict |-> FALSE, statement |-> statements]

\* the statements of a list, rendered in the order of the list
rendered(statements) ==
    [i \in 1..Len(statements) |-> statement_render(statements[i])]

(***************************************************************************)
(* The statements minify is run on: Allow statements over two actions and  *)
(* two resources, written as a string or as a list; Deny statements;       *)
(* Allow statements with NotAction and NotResource, which carry a Sid; and *)
(* Allow statements whose resource list holds "*".                         *)
(***************************************************************************)
MaxStatements == 3     \* most statements in the documents handed to minify
MaxIterations == 6     \* loop iterations the model follows

act_a == <<97>>            \* "a"
act_b == <<98>>            \* "b"
res_1 == <<114, 49>>       \* "r1"
res_2 == <<114, 50>>       \* "r2"
res_star == <<114, Star>>  \* "r*"
sid_El == <<69, 108>>      \* "El"

AllowRest == [k \in {Effect} |-> Allow]
DenyRest == [k \in {Effect} |-> Deny]

SmallStatements ==
    [action_key : {"Action"},
     action : {BareStr(act_a), BareStr(act_b), StrList(<<act_a, act_b>>)},
     resource_key : {"Resource"},
     resource : {BareStr(res_1), BareStr(res_2), StrList(<<res_1, res_2>>)},
     sid : {<<>>},
     rest : {AllowRest}]
    \cup
    [action_key : {"Action"},
     action : {BareStr(act_a), BareStr(act_b)},
     resource_key : {"Resource"},
     resource : {BareStr(res_1)},
     sid : {<<>>},
     rest : {DenyRest}]
    \cup
    [action_key : {"NotAction"},
     action : {BareStr(act_a), BareStr(act_b)},
     resource_key : {"NotResource"},
     resource : {BareStr(res_1), BareStr(res_2)},
     sid : {sid_El},
     rest : {AllowRest}]
    \cup
    [action_key : {"Action"},
     action : {BareStr(act_a), BareStr(act_b)},
     resource_key : {"Resource"},
     resource : {StrList(<<res_1, <<Star>>>>)},
     sid : {<<>>},
     rest : {AllowRest}]

RECURSIVE ListsUpTo(_, _)
\* the lists of at most n members of S
ListsUpTo(S, n) ==
    IF n = 0 THEN {<<>>}
    ELSE LET shorter == ListsUpTo(S, n - 1)
         IN  shorter \cup {Append(q, x) : q \in shorter, x \in S}

\* the documents holding a list of statements: all of them in one document,
\* or one document for each, its statement not wrapped in a list
Layouts(statements) ==
    { <<Policy(statements)>>,
      [i \in 1..Len(statements) |->
          [is_dict |-> TRUE, statement |-> <<statements[i]>>]] }

(***************************************************************************)
(* Specification of minify: parse the documents, then run the loop one     *)
(* pass at a time; then run minify on a document holding the result.       *)
(***************************************************************************)
MinifyInit ==
    /\ pc = "grouped_actions"
    /\ \E statements \in ListsUpTo(SmallStatements, MaxStatements) :
           policies \in Layouts(statements)
    /\ input_statements = flattened(policies)
    /\ internal_statements = input_statements
    /\ this_changed = TRUE
    /\ iterations = 0
    /\ reminified = Idle
    /\ items = Idle
    /\ new_items = Idle
    /\ again = Idle
    /\ new_policy = Idle
    /\ packed_list = Idle
    /\ packed_sets = Idle
    /\ combined = Idle
    /\ pack_call = Idle
    /\ pack_results = Idle
    /\ render_data = Idle
    /\ render_packed = Idle
    /\ supplied = Idle
    /\ built = Idle
    /\ write_call = Idle
    /\ output_dir = Idle
    /\ output_dir_before = Idle
    /\ write_outcome = Idle
    /\ parse_statement = Idle
    /\ parsed = Idle
    /\ objects = Idle
    /\ objects_before = Idle
    /\ group_call = Idle
    /\ group_result = Idle
    /\ split_call = Idle
    /\ splitted = Idle
    /\ as_json = Idle
    /\ parsed_again = Idle

\* "while this_changed:" and the call of grouped_actions
ActionPass ==
    /\ pc = "grouped_actions"
    /\ this_changed
    /\ iterations < MaxIterations
    /\ LET acted == grouped_actions(internal_statements)
       IN  /\ internal_statements' = acted.statements
           /\ this_changed' = cleared_unless(this_changed, acted.changed)
    /\ pc' = "grouped_resources"
    /\ UNCHANGED <<input_statements, iterations, reminified, reduceVars,
                   combineVars, packVars, renderVars,
                   documentVars, writeVars, parseVars,
                   groupVars, splitVars, jsonVars>>

\* the call of grouped_resources, which ends the iteration
ResourcePass ==
    /\ pc = "grouped_resources"
    /\ LET resourced == grouped_resources(internal_statements)
       IN  /\ internal_statements' = resourced.statements
           /\ this_changed' = cleared_unless(this_changed, resourced.changed)
    /\ iterations' = iterations + 1
    /\ pc' = "grouped_actions"
    /\ UNCHANGED <<input_statements, reminified, reduceVars, combineVars,
                   packVars, renderVars, documentVars,
                   writeVars, parseVars, groupVars,
                   splitVars, jsonVars>>

\* the loop condition fails: minify returns internal_statements
MinifyReturn ==
    /\ pc = "grouped_actions"
    /\ ~this_changed
    /\ pc' = "minified"
    /\ UNCHANGED <<minifyVars, reduceVars, combineVars, packVars, renderVars,
                   documentVars, writeVars, parseVars,
                   groupVars, splitVars, jsonVars>>

\* minify on a document that holds the rendered statements of the result
MinifyAgain ==
    /\ pc = "minified"
    /\ reminified' = minify(<<Policy(rendered(internal_statements))>>)
    /\ pc' = "reminified"
    /\ UNCHANGED <<internal_statements, input_statements, this_changed,
                   iterations, reduceVars, combineVars,
                   packVars, renderVars, documentVars,
                   writeVars, parseVars, groupVars,
                   splitVars, jsonVars>>

MinifyNext == ActionPass \/ ResourcePass \/ MinifyReturn \/ MinifyAgain

SpecMinify == MinifyInit /\ [][MinifyNext]_vars


(***************************************************************************)
(* Serialization.  json.dumps with sorted keys and separators (",", ":")   *)
(* is measured; the text itself is built only for rest, which the sorting  *)
(* key compares as text.  Names hold no character that JSON escapes.       *)
(***************************************************************************)
MAX_MANAGED_POLICY_SIZE == 6144
DEFAULT_ID_LENGTH == 32        \* len(Policy.DEFAULT_ID)
Version == <<50, 48, 49, 50, 45, 49, 48, 45, 49, 55>>       \* "2012-10-17"

RECURSIVE SeqSum(_)
SeqSum(q) == IF q = <<>> THEN 0 ELSE Head(q) + SeqSum(Tail(q))

\* a string between double quotes
Quoted(s) == <<34>> \o s \o <<34>>

RECURSIVE joined_members(_, _)
\* "key":"value" for every key, joined by ","
joined_members(keys, rest) ==
    IF keys = <<>> THEN <<>>
    ELSE Quoted(Head(keys)) \o <<58>> \o Quoted(rest[Head(keys)])
         \o (IF Len(keys) > 1 THEN <<44>> ELSE <<>>)
         \o joined_members(Tail(keys), rest)

\* json.dumps(rest, sort_keys=True, separators=(",", ":"))
rest_json(rest) ==
    <<123>> \o joined_members(SortedStrs(DOMAIN rest), rest) \o <<125>>

\* len(json.dumps(value)) of a string or a list of strings, compact
value_len(value) ==
    IF value.kind = "str" THEN Len(value.elems[1]) + 2
    ELSE 2 + SeqSum([i \in 1..Len(value.elems) |-> Len(value.elems[i]) + 2])
           + (IF Len(value.elems) > 1 THEN Len(value.elems) - 1 ELSE 0)

\* len of "key":value
member_len(key, length) == Len(key) + 3 + length

\* len(tiniest_json(statement)) of a raw statement
tiniest_len(statement) ==
    LET members ==
            <<member_len(statement.action_key, value_len(statement.action)),
              member_len(statement.resource_key, value_len(statement.resource))>>
            \o (IF statement.sid = <<>> THEN <<>>
                ELSE <<member_len("Sid", Len(statement.sid) + 2)>>)
            \o (IF DOMAIN statement.rest = {} THEN <<>>
                ELSE <<Len(rest_json(statement.rest)) - 2>>)
    IN  2 + SeqSum(members) + (Len(members) - 1)

\* len(policy.tiniest_json()): Version, Id and the statements of the document
policy_tiniest_len(policy) ==
    LET statements == statement_list(policy)
        lengths == [i \in 1..Len(statements) |-> tiniest_len(statements[i])]
    IN  2 + member_len("Version", Len(Version) + 2)
          + 1 + member_len("Id", DEFAULT_ID_LENGTH + 2)
          + 1 + member_len("Statement",
                           2 + SeqSum(lengths)
                             + (IF Len(lengths) > 1 THEN Len(lengths) - 1 ELSE 0))

\* Policy.render() raises UnshrinkablePolicyError: the compact style, the
\* last and shortest one it tries, is longer than the limit
Unshrinkable(policy) == policy_tiniest_len(policy) > MAX_MANAGED_POLICY_SIZE

(***************************************************************************)
(* policy.render: the statements sorted by sorting_key, then rendered.     *)
(***************************************************************************)
RECURSIVE ListLess(_, _)
\* Python's list < list on lists of strings
ListLess(p, q) ==
    IF q = <<>> THEN FALSE
    ELSE IF p = <<>> THEN TRUE
    ELSE IF Head(p) # Head(q) THEN StrLess(Head(p), Head(q))
    ELSE ListLess(Tail(p), Tail(q))

FlagOf(b) == IF b THEN 1 ELSE 0

\* sorting_key: the four flags and len(rest), the text of rest, the number
\* of actions, the sorted actions
sorting_key(statement) ==
    [leading |-> <<FlagOf(statement.action_key # "Action"),
                   FlagOf(statement.resource_key # "Resource"),
                   FlagOf(statement.resource_value # BareStr(<<Star>>)),
                   FlagOf(statement.rest # [k \in {Effect} |-> Allow]),
                   Cardinality(DOMAIN statement.rest)>>,
     rest |-> rest_json(statement.rest),
     count |-> Cardinality(statement.action_value),
     actions |-> SortedStrs(statement.action_value)]

\* Python's tuple < tuple on two sorting keys
KeyLess(a, b) ==
    IF a.leading # b.leading THEN StrLess(a.leading, b.leading)
    ELSE IF a.rest # b.rest THEN StrLess(a.rest, b.rest)
    ELSE IF a.count # b.count THEN a.count < b.count
    ELSE ListLess(a.actions, b.actions)

RECURSIVE sorted_by_key(_)
\* sorted(statements, key=sorting_key): stable, so a statement goes after
\* the earlier statements whose key is not greater than its own
sorted_by_key(statements) ==
    IF statements = <<>> THEN <<>>
    ELSE LET n == Len(statements)
             before == sorted_by_key(SubSeq(statements, 1, n - 1))
             last == statements[n]
             k == Cardinality({i \in 1..Len(before) :
                      ~KeyLess(sorting_key(last), sorting_key(before[i]))})
         IN  SubSeq(before, 1, k) \o <<last>> \o SubSeq(before, k + 1, Len(before))

\* a render that leaves the statements in the order given
render_Unsorted(statements) == Policy(rendered(statements))

\* render
render(statements) == Policy(rendered(sorted_by_key(statements)))

(***************************************************************************)
(* split_statement                                                         *)
(***************************************************************************)
\* math.ceil(a / b) for positive integers
CeilDiv(a, b) == (a + b - 1) \div b

\* len(actions): the characters of a string, the members of a list
actions_len(actions) ==
    IF actions.kind = "str" THEN Len(actions.elems[1]) ELSE Len(actions.elems)

\* actions[first : last]: a slice of a string is a string, a slice of a
\* list a list (positions counted from 1, last included)
actions_slice(actions, first, last) ==
    IF actions.kind = "str" THEN BareStr(SubSeq(actions.elems[1], first, last))
    ELSE StrList(SubSeq(actions.elems, first, last))

\* split_statement, as the list of the statements it yields;
\* ceil(len / (max_statement_size * 0.45)) is ceil(20 * len / (9 * max))
split_statement(statement, max_statement_size) ==
    LET actions == statement.action
        chunks == CeilDiv(20 * tiniest_len(statement), 9 * max_statement_size)
        chunk_size == CeilDiv(actions_len(actions), chunks)
        count == CeilDiv(actions_len(actions), chunk_size)
        upto(i) == IF i * chunk_size < actions_len(actions)
                   THEN i * chunk_size ELSE actions_len(actions)
    IN  [i \in 1..count |->
            [statement EXCEPT
                !.action = actions_slice(actions, (i - 1) * chunk_size + 1, upto(i))]]

(***************************************************************************)
(* optimizer.pack_statements.  An item is a statement with the length of   *)
(* its text; a packing is a list of bins, a bin the list of the positions  *)
(* of its items.                                                           *)
(***************************************************************************)
bin_load(bin, sizes) == SeqSum([k \in 1..Len(bin) |-> sizes[bin[k]]])

RECURSIVE packings_from(_, _, _, _, _)
\* every way to put items i.. into the bins so far and into new bins, each
\* bin within the capacity and at most `bins` of them
packings_from(sizes, i, so_far, capacity, bins) ==
    IF i > Len(sizes) THEN {so_far}
    ELSE UNION (
        { packings_from(sizes, i + 1, [so_far EXCEPT ![j] = Append(@, i)],
                        capacity, bins) :
            j \in {j \in 1..Len(so_far) :
                      bin_load(so_far[j], sizes) + sizes[i] <= capacity} }
        \cup
        (IF Len(so_far) < bins /\ sizes[i] <= capacity
         THEN {packings_from(sizes, i + 1, Append(so_far, <<i>>), capacity, bins)}
         ELSE {}))

\* the assignments that satisfy the constraints of the program
feasible_packings(sizes, capacity, bins) ==
    packings_from(sizes, 1, <<>>, capacity, bins)

\* a limit of bins that is one more than the caller's
optimal_packings_OneMoreBin(sizes, capacity, bins) ==
    LET feasible == feasible_packings(sizes, capacity, bins + 1)
    IN  {p \in feasible : \A q \in feasible : Len(p) <= Len(q)}

\* the solutions that minimize the number of bins used; the solver's status
\* is OPTIMAL exactly when there is one
optimal_packings(sizes, capacity, bins) ==
    LET feasible == feasible_packings(sizes, capacity, bins)
    IN  {p \in feasible : \A q \in feasible : Len(p) <= Len(q)}

MaxBins == 10               \* the bins combine allows the packer
MaxShuffledBins == 3        \* packings of at most this many bins are returned in every order

\* the orders in which the solver can return the bins of a packing
bin_orders(packing) ==
    IF Len(packing) <= MaxShuffledBins
    THEN {[j \in 1..Len(packing) |-> packing[order[j]]] :
              order \in Orderings(1..Len(packing))}
    ELSE {packing}

\* max_statement_size of combine
max_statement_size(statements) ==
    MAX_MANAGED_POLICY_SIZE - policy_tiniest_len(Policy(<<>>))
        - (Len(statements) - 2)

RECURSIVE packed_items(_, _)
\* the loop that fills packed_list: a statement longer than the limit is
\* replaced by the statements split_statement yields
packed_items(statements, limit) ==
    IF statements = <<>> THEN <<>>
    ELSE (IF tiniest_len(Head(statements)) > limit
          THEN split_statement(Head(statements), limit)
          ELSE <<Head(statements)>>)
         \o packed_items(Tail(statements), limit)

(***************************************************************************)
(* The statements combine is run on: short ones, and long ones around the  *)
(* sizes at which combine changes course.                                  *)
(***************************************************************************)
MaxPolicies == 2       \* most statements in the documents handed to combine

Rep(c, n) == [i \in 1..n |-> c]

spam == <<115, 112, 97, 109>>         \* "spam"

\* {"Action": <n times c>, "Effect": "Allow", "Resource": "r1"}
LongStatement(c, n) ==
    [action_key |-> "Action", action |-> BareStr(Rep(c, n)),
     resource_key |-> "Resource", resource |-> BareStr(res_1),
     sid |-> <<>>, rest |-> AllowRest]

\* the statement of test_policy_combine_big:
\* {"Action": [<n times c>], "NotResource": "spam"}
TestStatement(c, n) ==
    [action_key |-> "Action", action |-> StrList(<<Rep(c, n)>>),
     resource_key |-> "NotResource", resource |-> BareStr(spam),
     sid |-> <<>>, rest |-> <<>>]

\* one statement of k actions, each half as long as a document may be
ManyActions(k) ==
    [action_key |-> "Action",
     action |-> StrList([i \in 1..k |-> Rep(96 + i, MAX_MANAGED_POLICY_SIZE \div 2)]),
     resource_key |-> "Resource", resource |-> BareStr(res_1),
     sid |-> <<>>, rest |-> AllowRest]

\* one action on a resource as long as a document may be
LongResource ==
    [action_key |-> "Action", action |-> BareStr(act_a),
     resource_key |-> "Resource",
     resource |-> BareStr(Rep(114, MAX_MANAGED_POLICY_SIZE)),
     sid |-> <<>>, rest |-> AllowRest]

\* the length of the action with which LongStatement is as long as
\* max_statement_size of a single statement
EdgeLength ==
    max_statement_size(<<LongStatement(97, 0)>>) - tiniest_len(LongStatement(97, 0))

\* statements just below, at and just above max_statement_size
EdgeStatements ==
    { LongStatement(97, EdgeLength - 1), LongStatement(97, EdgeLength),
      LongStatement(97, EdgeLength + 1) }

\* the three documents of test_policy_combine_big
test_policy_combine_big ==
    << TestStatement(97, (MAX_MANAGED_POLICY_SIZE * 4) \div 10),
       TestStatement(98, (MAX_MANAGED_POLICY_SIZE * 7) \div 10),
       TestStatement(99, (MAX_MANAGED_POLICY_SIZE * 4) \div 10) >>

\* inputs that need as many documents as combine allows, one more, and a
\* statement that no document can hold
LongInputs ==
    { <<ManyActions(MaxBins)>>, <<ManyActions(MaxBins + 1)>>, <<LongResource>>,
      test_policy_combine_big }

\* the short statements over one resource, and one with another resource
ShortStatements ==
    {s \in SmallStatements :
        /\ s.action.kind = "str"
        /\ \/ s.resource = BareStr(res_1)
           \/ s.resource = BareStr(res_2) /\ s.action_key = "NotAction"
                                         /\ s.action = BareStr(act_a)}

\* the document of test_policy_combine_small:
\* {"Action": "Dance!", "Resource": ["Disco"]}
test_policy_combine_small ==
    << [action_key |-> "Action",
        action |-> BareStr(<<68, 97, 110, 99, 101, 33>>),
        resource_key |-> "Resource",
        resource |-> StrList(<< <<68, 105, 115, 99, 111>> >>),
        sid |-> <<>>, rest |-> <<>>] >>

\* three statements of one action: on a wildcard, on the wildcard and a
\* name it matches, and on another name it matches
WildcardStatements ==
    {[action_key |-> "Action", action |-> BareStr(act_a),
      resource_key |-> "Resource", resource |-> resource,
      sid |-> <<>>, rest |-> AllowRest] :
        resource \in {BareStr(res_star), StrList(<<res_star, res_1>>),
                      BareStr(res_2)}}

\* lists of short statements, lists of short statements followed by a
\* statement at the edge, the long inputs, the small test, and the three
\* wildcard statements in every order
CombineInputs ==
    ListsUpTo(ShortStatements, MaxPolicies)
        \cup {Append(q, long) : q \in ListsUpTo(ShortStatements, MaxPolicies - 1),
                                long \in EdgeStatements}
        \cup LongInputs
        \cup {test_policy_combine_small}
        \cup Orderings(WildcardStatements)

(***************************************************************************)
(* Specification of combine.                                               *)
(***************************************************************************)
CombineInit ==
    /\ pc = "combine"
    /\ \E statements \in CombineInputs :
           policies = [i \in 1..Len(statements) |-> Policy(<<statements[i]>>)]
    /\ new_policy = Idle
    /\ packed_list = Idle
    /\ packed_sets = Idle
    /\ combined = Idle
    /\ pack_call = Idle
    /\ pack_results = Idle
    /\ render_data = Idle
    /\ render_packed = Idle
    /\ supplied = Idle
    /\ built = Idle
    /\ write_call = Idle
    /\ output_dir = Idle
    /\ output_dir_before = Idle
    /\ write_outcome = Idle
    /\ parse_statement = Idle
    /\ parsed = Idle
    /\ objects = Idle
    /\ objects_before = Idle
    /\ group_call = Idle
    /\ group_result = Idle
    /\ split_call = Idle
    /\ splitted = Idle
    /\ as_json = Idle
    /\ parsed_again = Idle
    /\ items = Idle
    /\ new_items = Idle
    /\ again = Idle
    /\ internal_statements = Idle
    /\ input_statements = Idle
    /\ this_changed = Idle
    /\ iterations = 0
    /\ reminified = Idle

\* new_policy = render(minify(policies))
CombineMerge ==
    /\ pc = "combine"
    /\ new_policy' = render(minify(policies))
    /\ pc' = "merged"
    /\ UNCHANGED <<policies, packed_list, packed_sets, combined, reduceVars,
                   minifyVars, packVars, renderVars,
                   documentVars, writeVars, parseVars,
                   groupVars, splitVars, jsonVars>>

\* new_policy.render() succeeds: return [new_policy]
CombineFits ==
    /\ pc = "merged"
    /\ ~Unshrinkable(new_policy)
    /\ combined' = [result |-> "returned", policies |-> <<new_policy>>]
    /\ pc' = "returned"
    /\ UNCHANGED <<policies, new_policy, packed_list, packed_sets, reduceVars,
                   minifyVars, packVars, renderVars,
                   documentVars, writeVars, parseVars,
                   groupVars, splitVars, jsonVars>>

\* new_policy.render() raises UnshrinkablePolicyError: fill packed_list
CombineSplit ==
    /\ pc = "merged"
    /\ Unshrinkable(new_policy)
    /\ packed_list' = packed_items(new_policy.statement,
                                   max_statement_size(new_policy.statement))
    /\ pc' = "split"
    /\ UNCHANGED <<policies, new_policy, packed_sets, combined, reduceVars,
                   minifyVars, packVars, renderVars,
                   documentVars, writeVars, parseVars,
                   groupVars, splitVars, jsonVars>>

\* the sizes pack_statements is given
packed_sizes == [i \in 1..Len(packed_list) |-> tiniest_len(packed_list[i])]

\* pack_statements returns the bins of an optimal solution
CombinePack ==
    /\ pc = "split"
    /\ \E packing \in optimal_packings(packed_sizes,
                                       max_statement_size(new_policy.statement),
                                       MaxBins) :
           \E bins \in bin_orders(packing) :
               packed_sets' =
                   [j \in 1..Len(bins) |->
                       [k \in 1..Len(bins[j]) |-> packed_list[bins[j][k]]]]
    /\ pc' = "packed"
    /\ UNCHANGED <<policies, new_policy, packed_list, combined, reduceVars,
                   minifyVars, packVars, renderVars,
                   documentVars, writeVars, parseVars,
                   groupVars, splitVars, jsonVars>>

\* pack_statements raises UnpackableStatementsError
CombineUnpackable ==
    /\ pc = "split"
    /\ optimal_packings(packed_sizes, max_statement_size(new_policy.statement),
                        MaxBins) = {}
    /\ combined' = [result |-> "UnpackableStatementsError", policies |-> <<>>]
    /\ pc' = "raised"
    /\ UNCHANGED <<policies, new_policy, packed_list, packed_sets, reduceVars,
                   minifyVars, packVars, renderVars,
                   documentVars, writeVars, parseVars,
                   groupVars, splitVars, jsonVars>>

\* every bin is merged again and rendered; return the documents
CombineRemerge ==
    /\ pc = "packed"
    /\ combined' =
           [result |-> "returned",
            policies |-> [j \in 1..Len(packed_sets) |->
                             render(minify(<<Policy(packed_sets[j])>>))]]
    /\ pc' = "returned"
    /\ UNCHANGED <<policies, new_policy, packed_list, packed_sets, reduceVars,
                   minifyVars, packVars, renderVars,
                   documentVars, writeVars, parseVars,
                   groupVars, splitVars, jsonVars>>

CombineNext ==
    \/ CombineMerge
    \/ CombineFits
    \/ CombineSplit
    \/ CombinePack
    \/ CombineUnpackable
    \/ CombineRemerge

SpecCombine == CombineInit /\ [][CombineNext]_vars


(***************************************************************************)
(* Claims about reduce (collect_wildcard_matches), under SpecReduce.       *)
(***************************************************************************)
Reduced == pc \in {"reduced", "reduced_again"}

\* the elements of the result
Kept == SeqToSet(new_items.elems)

SameIgnoringCase(x, y) == casefold(x) = casefold(y)

ClassOf(x) == {y \in items : SameIgnoringCase(x, y)}

\* the smallest member of a class in case-sensitive order
Smallest(class) == CHOOSE m \in class : \A y \in class \ {m} : StrLess(m, y)

RECURSIVE GlobMatchFrom(_, _, _, _)
\* the wildcard reading of a pattern: "*" is any sequence, every other
\* character stands for itself, letters compared ignoring case
GlobMatchFrom(p, i, text, j) ==
    IF i > Len(p) THEN j > Len(text)
    ELSE IF p[i] = Star
         THEN \E k \in j..(Len(text) + 1) : GlobMatchFrom(p, i + 1, text, k)
         ELSE /\ j <= Len(text)
              /\ casefold_char(p[i]) = casefold_char(text[j])
              /\ GlobMatchFrom(p, i + 1, text, j + 1)

GlobMatches(p, text) == GlobMatchFrom(p, 1, text, 1)

IsWildcard(x) == Star \in SeqToSet(x)

\* C6 as stated: reduce(reduce(S)) equals reduce(S), elements, order and
\* shape (bare string or list) included.
C6_IdempotentWithShape ==
    pc = "reduced_again" => again = new_items

\* C6 as amended: reducing the result of reduce(S) returns the same elements
\* in the same order; the shape is kept except that a one-element list
\* becomes a bare string.
C6_IdempotentElements ==
    pc = "reduced_again" =>
        /\ again.elems = new_items.elems
        /\ \/ again.kind = new_items.kind
           \/ /\ new_items.kind = "list"
              /\ Len(new_items.elems) = 1
              /\ again.kind = "str"

\* C6 witness: a set of several elements was reduced to a one-element list
\* and that list was reduced again.
C6_Witness ==
    /\ pc = "reduced_again"
    /\ Cardinality(items) >= 2
    /\ new_items.kind = "list"
    /\ Len(new_items.elems) = 1

\* C7: for a set of at least two elements, an element is absent from the
\* result exactly when it duplicates a kept element ignoring case or the
\* wildcard pattern of an element of another spelling class matches it
\* ("*" = any sequence, anchored, ignoring case); and the result is the same
\* for every iteration order of the set.
C7_RemovesExactlyShadowed ==
    (Reduced /\ Cardinality(items) >= 2) =>
        /\ \A x \in items :
               x \notin Kept <=>
                   \/ \E y \in Kept : y # x /\ SameIgnoringCase(x, y)
                   \/ \E y \in items : /\ ~SameIgnoringCase(x, y)
                                       /\ IsWildcard(y)
                                       /\ GlobMatches(y, x)
        /\ \A order \in Orderings(items) :
               collect_wildcard_matches(order) = new_items

\* C8 as stated: reduce({"svc:spam","svc:*","svc:eggs"}) is the bare string
\* "svc:*".
C8_ServiceWildcardBare ==
    (Reduced /\ items = {svc_spam, svc_star, svc_eggs}) =>
        new_items = BareStr(svc_star)

\* C8 as amended: reduce({"svc:spam","svc:*","svc:eggs"}) is the one-element
\* list ["svc:*"].
C8_ServiceWildcardList ==
    (Reduced /\ items = {svc_spam, svc_star, svc_eggs}) =>
        new_items = StrList(<<svc_star>>)

\* C8 witness: that set has been reduced.
C8_Witness ==
    Reduced /\ items = {svc_spam, svc_star, svc_eggs}

\* C9 as stated: the result holds exactly one member of every class of
\* elements equal ignoring case, the class's smallest member in
\* case-sensitive order.
C9_OneRepresentativePerClass ==
    Reduced =>
        \A x \in items : Kept \cap ClassOf(x) = {Smallest(ClassOf(x))}

\* C9 as amended: the result holds at most one member of every class, and
\* only the class's smallest member in case-sensitive order; that member is
\* dropped only when the pattern of a wildcard element of another class
\* matches it, so two spellings of one wildcard do not shadow each other.
C9_SmallestRepresentative ==
    Reduced =>
        \A x \in items :
            LET class == ClassOf(x)
                m == Smallest(class)
            IN  /\ Kept \cap class \subseteq {m}
                /\ m \notin Kept =>
                       \E y \in items \ class :
                           IsWildcard(y) /\ PatternMatches(y, m)

\* C9 witness: two spellings of one wildcard were reduced and only the
\* smallest spelling was kept.
C9_Witness ==
    /\ Reduced
    /\ \E x \in items :
           /\ IsWildcard(x)
           /\ Cardinality(ClassOf(x)) >= 2
           /\ Kept \cap ClassOf(x) = {Smallest(ClassOf(x))}

\* C10 as stated: for a set of at least two elements the returned list is
\* sorted by the case-sensitive order of its elements' spellings.
C10_SortedCaseSensitive ==
    (Reduced /\ Cardinality(items) >= 2) =>
        \A i, j \in 1..Len(new_items.elems) :
            i < j => StrLess(new_items.elems[i], new_items.elems[j])

\* C10 as amended: for a set of at least two elements the returned list is
\* sorted by the casefolded spellings of its elements.
C10_SortedByCasefold ==
    (Reduced /\ Cardinality(items) >= 2) =>
        \A i, j \in 1..Len(new_items.elems) :
            i < j => StrLess(casefold(new_items.elems[i]),
                             casefold(new_items.elems[j]))

\* C10 witness: a returned list in which an element with an upper-case
\* letter follows an element that compares higher case-sensitively.
C10_Witness ==
    /\ Reduced
    /\ Cardinality(items) >= 2
    /\ \E i, j \in 1..Len(new_items.elems) :
           i < j /\ StrLess(new_items.elems[j], new_items.elems[i])

(***************************************************************************)
(* Claims about minify, under SpecMinify.                                  *)
(***************************************************************************)
\* the action and resource strings of a list of internal statements
StringsOf(statements) ==
    UNION {statements[i].action_value \cup to_set(statements[i].resource_value) :
               i \in 1..Len(statements)}

\* two statements of the list have the same groupByAction key
SharesActionGroup(statements) ==
    \E i, j \in 1..Len(statements) :
        /\ i # j
        /\ grouping_for_actions(statements[i]) = grouping_for_actions(statements[j])

\* two statements of the list have the same groupByResource key
SharesResourceGroup(statements) ==
    \E i, j \in 1..Len(statements) :
        /\ i # j
        /\ grouping_for_resources(statements[i])
               = grouping_for_resources(statements[j])

\* the loop taken one pass at a time returns what minify returns
MinifySteppedIsMinify ==
    pc = "minified" => internal_statements = minify(policies)

\* C4: minify reaches a fixed point: minify on a document holding exactly the
\* statements of minify(D) returns the same statements, and in minify(D) no
\* two statements share a groupByAction key or a groupByResource key.
C4_MinifyFixedPoint ==
    pc = "reminified" =>
        /\ rendered(reminified) = rendered(internal_statements)
        /\ ~SharesActionGroup(internal_statements)
        /\ ~SharesResourceGroup(internal_statements)

\* C5: minify terminates: every iteration of its loop that is followed by
\* another has removed a statement, so the loop runs at most one iteration
\* more than the input has statements (and stops before the model's limit
\* on iterations is reached); the number of statements never exceeds that
\* of the input, and every action and resource string is a string of the
\* input.
C5_MinifyTerminates ==
    /\ iterations <= (Len(input_statements) - Len(internal_statements)) + 1
    /\ iterations <= Len(input_statements) + 1
    /\ (pc = "grouped_actions" /\ this_changed) => iterations < MaxIterations
    /\ Len(internal_statements) <= Len(input_statements)
    /\ StringsOf(internal_statements) \subseteq StringsOf(input_statements)

\* C5 witness: minify has returned after more than one iteration of its loop.
C5_Witness ==
    pc = "minified" /\ iterations >= 2

(***************************************************************************)
(* Claims about combine, under SpecCombine.                                *)
(***************************************************************************)
RECURSIVE raw_statements(_)
\* the raw statements of a list of documents
raw_statements(documents) ==
    IF documents = <<>> THEN <<>>
    ELSE statement_list(Head(documents)) \o raw_statements(Tail(documents))

\* the names a list of raw statements uses as actions, and as resources
ActionNames(statements) ==
    UNION {to_set(statements[i].action) : i \in 1..Len(statements)}

ResourceNames(statements) ==
    UNION {to_set(statements[i].resource) : i \in 1..Len(statements)}

\* a name no statement uses
OtherName == <<63>>

\* the names a key and its value match: the listed names, or for NotAction
\* and NotResource every name of the universe that is not listed
Matched(key, listed, universe) ==
    IF key \in {"Action", "Resource"} THEN listed ELSE universe \ listed

\* the (action, resource) pairs the statements match, tagged with their rest
Meaning(statements, actions, resources) ==
    UNION { { <<a, r, statements[i].rest>> :
                a \in Matched(statements[i].action_key,
                              to_set(statements[i].action), actions),
                r \in Matched(statements[i].resource_key,
                              to_set(statements[i].resource), resources) } :
            i \in 1..Len(statements) }

\* test_policy_combine_big: two documents, the first and third action in
\* one and the second in the other, of 5032 and 4413 characters
TestPolicyCombineBig ==
    (pc = "returned" /\ raw_statements(policies) = test_policy_combine_big) =>
        /\ Len(combined.policies) = 2
        /\ {combined.policies[j].statement[1].action : j \in 1..2}
               = { StrList(<<test_policy_combine_big[1].action.elems[1],
                             test_policy_combine_big[3].action.elems[1]>>),
                   BareStr(test_policy_combine_big[2].action.elems[1]) }
        /\ {policy_tiniest_len(combined.policies[j]) : j \in 1..2} = {5032, 4413}

\* C1: every document combine returns is at most 6144 characters long when
\* written compactly, in the single-document branch and in the overflow
\* branch, for any number of merged statements including exactly one.
C1_DocumentsWithinCap ==
    pc = "returned" =>
        \A j \in 1..Len(combined.policies) :
            policy_tiniest_len(combined.policies[j]) <= MAX_MANAGED_POLICY_SIZE

\* C2: combine either returns a list of at least 1 and at most 10 documents
\* or fails with the unpackable-statements error (for the inputs of
\* CombineInputs).
C2_OneToTenDocuments ==
    pc \in {"returned", "raised"} =>
        \/ /\ combined.result = "returned"
           /\ Len(combined.policies) >= 1
           /\ Len(combined.policies) <= MaxBins
        \/ /\ combined.result = "UnpackableStatementsError"
           /\ combined.policies = <<>>

\* C2 witness: combine returned as many documents as it allows.
C2_Witness ==
    /\ pc = "returned"
    /\ Len(combined.policies) = MaxBins

\* C3: combine preserves meaning: over the names of the input, of the output
\* and one more, the tagged (action, resource) pairs matched by the
\* statements of the returned documents are those matched by the input
\* statements.
C3_CombinePreservesMeaning ==
    pc = "returned" =>
        LET inputs == raw_statements(policies)
            outputs == raw_statements(combined.policies)
            actions == ActionNames(inputs) \cup ActionNames(outputs) \cup {OtherName}
            resources == ResourceNames(inputs) \cup ResourceNames(outputs)
                             \cup {OtherName}
        IN  Meaning(outputs, actions, resources) = Meaning(inputs, actions, resources)

(***************************************************************************)
(* Claims about resource canonicalization, under SpecMinify.               *)
(***************************************************************************)
AllResources == BareStr(<<Star>>)

\* the statements handed to the first resource pass
FirstResourcePassInput == grouped_actions(input_statements).statements

\* the first resource pass has just returned
AfterFirstResourcePass == pc = "grouped_actions" /\ iterations = 1

\* C11: canonicalize_resources returns the bare string "*" whenever "*" is
\* in the set, whatever the other elements; so the resource value of a
\* statement is "*" after parsing resources that contain "*", and after a
\* resource pass in which a statement of its group has "*" among its
\* resources.
C11_StarAbsorbs ==
    /\ \A others \in SUBSET StringsOf(input_statements) :
           canonicalize_resources(others \cup {<<Star>>}) = AllResources
    /\ \A k \in 1..Len(policies) :
           \A statement \in SeqToSet(statement_list(policies[k])) :
               <<Star>> \in to_set(statement.resource) =>
                   InternalStatement(statement).resource_value = AllResources
    /\ AfterFirstResourcePass =>
           \A i \in 1..Len(internal_statements) :
               (\E j \in 1..Len(FirstResourcePassInput) :
                    /\ grouping_for_resources(FirstResourcePassInput[j])
                           = grouping_for_resources(internal_statements[i])
                    /\ <<Star>> \in to_set(FirstResourcePassInput[j].resource_value))
               => internal_statements[i].resource_value = AllResources

\* C11 witness: the resource pass merged a statement on "r1" with one whose
\* resources hold "*", and the merged statement has the resource "*".
C11_Witness ==
    /\ AfterFirstResourcePass
    /\ \E i \in 1..Len(internal_statements) :
           /\ internal_statements[i].resource_value = AllResources
           /\ \E j, k \in 1..Len(FirstResourcePassInput) :
                  /\ j # k
                  /\ grouping_for_resources(FirstResourcePassInput[j])
                         = grouping_for_resources(internal_statements[i])
                  /\ grouping_for_resources(FirstResourcePassInput[k])
                         = grouping_for_resources(internal_statements[i])
                  /\ FirstResourcePassInput[j].resource_value = BareStr(res_1)
                  /\ FirstResourcePassInput[k].resource_value = AllResources

(***************************************************************************)
(* optimizer.pack_statements as the program states it: x puts every item   *)
(* in one bin, y is the set of the bins in use, the text of a bin is no    *)
(* longer than max_statement_size when the bin is in use and than 0 when   *)
(* it is not, and the solver returns any solution with the fewest bins in  *)
(* use.                                                                    *)
(***************************************************************************)
MaxPacked == 3         \* most items handed to pack_statements
MaxPackBins == 2       \* most bins pack_statements is allowed

\* sum(x[(i, j)] * len(item) for i, item in enumerate(packed))
packed_in_bin(packed, x, j) ==
    SeqSum([i \in 1..Len(packed) |-> IF x[i] = j THEN Len(packed[i]) ELSE 0])

\* the solutions that satisfy no constraint on the size of a bin
solver_solutions_Unconstrained(packed, size_limit, bins) ==
    [x : [1..Len(packed) -> 1..bins], y : SUBSET (1..bins)]

\* the values of x and y that satisfy the constraints
solver_solutions(packed, size_limit, bins) ==
    {s \in [x : [1..Len(packed) -> 1..bins], y : SUBSET (1..bins)] :
        \A j \in 1..bins :
            packed_in_bin(packed, s.x, j)
                <= (IF j \in s.y THEN size_limit ELSE 0)}

\* a solver that stops at any solution
solver_optimal_AnySolution(packed, size_limit, bins) ==
    solver_solutions(packed, size_limit, bins)

\* solver.Minimize(sum of y): the solutions Solve() can stop at with the
\* status OPTIMAL
solver_optimal(packed, size_limit, bins) ==
    LET solutions == solver_solutions(packed, size_limit, bins)
    IN  {s \in solutions :
            \A t \in solutions : Cardinality(s.y) <= Cardinality(t.y)}

RECURSIVE bin_statements(_, _, _)
\* the items of bin j, as their positions in packed from position i on
bin_statements(x, j, i) ==
    IF i > Len(x) THEN <<>>
    ELSE (IF x[i] = j THEN <<i>> ELSE <<>>) \o bin_statements(x, j, i + 1)

RECURSIVE solver_results(_, _, _)
\* the loop that builds results from bin j on: a bin that is not in use
\* and a bin without items are skipped
solver_results(solution, j, bins) ==
    IF j > bins THEN <<>>
    ELSE (IF j \in solution.y /\ bin_statements(solution.x, j, 1) # <<>>
          THEN <<bin_statements(solution.x, j, 1)>>
          ELSE <<>>)
         \o solver_results(solution, j + 1, bins)

\* the lists pack_statements can return; none when it raises
pack_statements(packed, size_limit, bins) ==
    {solver_results(s, 1, bins) :
        s \in solver_optimal(packed, size_limit, bins)}

\* the call of test_optimizer: 35, 45, 55 and 65 characters
test_pack_statements == <<Rep(97, 35), Rep(98, 45), Rep(99, 55), Rep(100, 65)>>

\* the items of the calls: the empty string and three of the test's items
PackItems == {<<>>, Rep(97, 35), Rep(98, 45), Rep(100, 65)}

PackCalls ==
    [packed : ListsUpTo(PackItems, MaxPacked) \cup {test_pack_statements},
     max_statement_size : {99, 100},
     bins : 1..MaxPackBins]

(***************************************************************************)
(* Specification of pack_statements: a call, then its return or its raise. *)
(***************************************************************************)
PackInit ==
    /\ pc = "pack_statements"
    /\ pack_call \in PackCalls
    /\ pack_results = Idle
    /\ render_data = Idle
    /\ render_packed = Idle
    /\ supplied = Idle
    /\ built = Idle
    /\ write_call = Idle
    /\ output_dir = Idle
    /\ output_dir_before = Idle
    /\ write_outcome = Idle
    /\ parse_statement = Idle
    /\ parsed = Idle
    /\ objects = Idle
    /\ objects_before = Idle
    /\ group_call = Idle
    /\ group_result = Idle
    /\ split_call = Idle
    /\ splitted = Idle
    /\ as_json = Idle
    /\ parsed_again = Idle
    /\ items = Idle
    /\ new_items = Idle
    /\ again = Idle
    /\ internal_statements = Idle
    /\ input_statements = Idle
    /\ this_changed = FALSE
    /\ iterations = 0
    /\ reminified = Idle
    /\ policies = Idle
    /\ new_policy = Idle
    /\ packed_list = Idle
    /\ packed_sets = Idle
    /\ combined = Idle

\* status is OPTIMAL: results is built from the solution and returned
PackReturn ==
    /\ pc = "pack_statements"
    /\ \E results \in pack_statements(pack_call.packed,
                                      pack_call.max_statement_size,
                                      pack_call.bins) :
           pack_results' = [result |-> "returned", results |-> results]
    /\ pc' = "packed"
    /\ UNCHANGED <<pack_call, reduceVars, minifyVars, combineVars, renderVars,
                   documentVars, writeVars, parseVars,
                   groupVars, splitVars, jsonVars>>

\* status is not OPTIMAL: UnpackableStatementsError
PackRaise ==
    /\ pc = "pack_statements"
    /\ solver_optimal(pack_call.packed, pack_call.max_statement_size,
                      pack_call.bins) = {}
    /\ pack_results' = [result |-> "UnpackableStatementsError",
                        results |-> <<>>]
    /\ pc' = "raised"
    /\ UNCHANGED <<pack_call, reduceVars, minifyVars, combineVars, renderVars,
                   documentVars, writeVars, parseVars,
                   groupVars, splitVars, jsonVars>>

PackNext == PackReturn \/ PackRaise

SpecPack == PackInit /\ [][PackNext]_vars

\* the text of the items of a bin
results_load(bin) == SeqSum([k \in 1..Len(bin) |-> Len(pack_call.packed[bin[k]])])

\* with no empty item, pack_statements returns the packings that the packer
\* of combine returns, in every order of their bins
PackIsThePackerOfCombine ==
    LET packed == pack_call.packed
        sizes == [i \in 1..Len(packed) |-> Len(packed[i])]
    IN  (\A i \in 1..Len(packed) : packed[i] # <<>>) =>
            pack_statements(packed, pack_call.max_statement_size, pack_call.bins)
                = UNION {bin_orders(p) :
                            p \in optimal_packings(sizes,
                                                   pack_call.max_statement_size,
                                                   pack_call.bins)}

(***************************************************************************)
(* Claims about pack_statements, under SpecPack.                           *)
(***************************************************************************)
Returned == pc = "packed"

\* the bins of results that hold position i of packed
BinsOf(i) ==
    {j \in 1..Len(pack_results.results) :
        \E k \in 1..Len(pack_results.results[j]) :
            pack_results.results[j][k] = i}

\* every item is in one of k bins and no bin holds more than the capacity
FitsIn(k) ==
    \E f \in [1..Len(pack_call.packed) -> 1..k] :
        \A j \in 1..k :
            packed_in_bin(pack_call.packed, f, j) <= pack_call.max_statement_size

\* C12: what pack_statements returns is a valid packing: every position of
\* packed is in exactly one bin, no bin is empty, the text of a bin is no
\* longer than max_statement_size, and there are at most `bins` bins.
C12_ValidPacking ==
    Returned =>
        /\ \A i \in 1..Len(pack_call.packed) : Cardinality(BinsOf(i)) = 1
        /\ \A j \in 1..Len(pack_results.results) :
               /\ pack_results.results[j] # <<>>
               /\ results_load(pack_results.results[j])
                      <= pack_call.max_statement_size
        /\ Len(pack_results.results) <= pack_call.bins

\* what pack_statements returns when no item is the empty string is a valid
\* packing
ValidPackingOfNonEmptyItems ==
    (\A i \in 1..Len(pack_call.packed) : pack_call.packed[i] # <<>>)
        => C12_ValidPacking

\* C13: the items do not fit in fewer bins than pack_statements returns.
C13_FewestBins ==
    Returned => \A k \in 0..(Len(pack_results.results) - 1) : ~FitsIn(k)

\* the test's items are returned in two bins
C13_Witness ==
    /\ Returned
    /\ pack_call.packed = test_pack_statements
    /\ Len(pack_results.results) = 2

\* C14: pack_statements raises UnpackableStatementsError exactly when the
\* items fit in no number of bins up to `bins`; otherwise it returns, and
\* when it raises it returns no bin.
C14_RaisesWhenNothingFits ==
    pc # "pack_statements" =>
        /\ pc = "raised" <=> ~(\E k \in 0..pack_call.bins : FitsIn(k))
        /\ pc = "raised" =>
               pack_results = [result |-> "UnpackableStatementsError",
                               results |-> <<>>]
        /\ Returned => pack_results.result = "returned"

\* the test's items with a capacity of 99 and two bins
C14_Witness ==
    /\ pc = "raised"
    /\ pack_call = [packed |-> test_pack_statements,
                    max_statement_size |-> 99, bins |-> 2]

(***************************************************************************)
(* models.Policy and its render().  A Policy holds its statements sorted   *)
(* by sorting_key; render() measures json.dumps(as_json(), **args) for the *)
(* arguments of JSON_ARGS in turn.  The text of a style is measured, not   *)
(* built: the length of a container is the length of its members, of the   *)
(* separators between them and of the line breaks and indentation that     *)
(* json.dumps puts before each member and before the closing bracket.      *)
(***************************************************************************)
NoIndent == -1         \* json.dumps without indent: everything on one line

\* JSON_ARGS: indent is the width of one level of indentation ("\t" is one
\* character); separators are (",", ": ") with an indent, (", ", ": ")
\* without arguments, and (",", ":") as given
JSON_ARGS ==
    <<[indent |-> 4, item_separator |-> 1, key_separator |-> 2],
      [indent |-> 2, item_separator |-> 1, key_separator |-> 2],
      [indent |-> 1, item_separator |-> 1, key_separator |-> 2],
      [indent |-> NoIndent, item_separator |-> 2, key_separator |-> 2],
      [indent |-> NoIndent, item_separator |-> 1, key_separator |-> 1]>>

\* len of a list or a dict whose members have the given lengths and stand
\* at the given level of indentation
container_len(member_lens, args, level) ==
    IF member_lens = <<>> THEN 2
    ELSE 2 + SeqSum(member_lens)
           + (Len(member_lens) - 1) * args.item_separator
           + (IF args.indent = NoIndent THEN 0
              ELSE Len(member_lens) * (1 + args.indent * level)
                   + 1 + args.indent * (level - 1))

\* len of a string or of a list of strings whose members stand at `level`
value_dumps_len(value, args, level) ==
    IF value.kind = "str" THEN Len(value.elems[1]) + 2
    ELSE container_len([i \in 1..Len(value.elems) |-> Len(value.elems[i]) + 2],
                       args, level)

\* len of "key": value
member_dumps_len(key, length, args) == Len(key) + 2 + args.key_separator + length

\* len of Statement.as_json(): rest, then the actions and the resources
statement_dumps_len(statement, args, level) ==
    LET keys == SortedStrs(DOMAIN statement.rest)
    IN  container_len(
            [i \in 1..Len(keys) |->
                member_dumps_len(keys[i], Len(statement.rest[keys[i]]) + 2, args)]
            \o <<member_dumps_len(statement.action_key,
                     value_dumps_len(statement.action, args, level + 1), args),
                 member_dumps_len(statement.resource_key,
                     value_dumps_len(statement.resource, args, level + 1), args)>>,
            args, level)

\* Policy(statements): __post_init__ sorts the statements
models_Policy(statements) ==
    [statements |-> sorted_by_key(statements), version |-> Version]

\* len(json.dumps(policy.as_json(), **args)); the Id is as long as DEFAULT_ID
policy_dumps_len(policy, args) ==
    LET statements == rendered(policy.statements)
    IN  container_len(
            <<member_dumps_len("Version", Len(policy.version) + 2, args),
              member_dumps_len("Id", DEFAULT_ID_LENGTH + 2, args),
              member_dumps_len("Statement",
                  container_len(
                      [i \in 1..Len(statements) |->
                          statement_dumps_len(statements[i], args, 3)],
                      args, 2),
                  args)>>,
            args, 1)

RECURSIVE render_loop(_, _)
\* the loop of render from style k on: the first style that fits, with its
\* length, or UnshrinkablePolicyError
render_loop(policy, k) ==
    IF k > Len(JSON_ARGS)
    THEN [result |-> "UnshrinkablePolicyError", style |-> 0, length |-> 0]
    ELSE IF policy_dumps_len(policy, JSON_ARGS[k]) <= MAX_MANAGED_POLICY_SIZE
    THEN [result |-> "returned", style |-> k,
          length |-> policy_dumps_len(policy, JSON_ARGS[k])]
    ELSE render_loop(policy, k + 1)

\* a render that does not try the first style
Policy_render_FromSecond(policy) == render_loop(policy, 2)

\* Policy.render
Policy_render(policy) == render_loop(policy, 1)

(***************************************************************************)
(* Specification of Policy.render: a document of short statements, or of   *)
(* short statements and one statement whose action is long enough for the  *)
(* document to be near the limit in one of the styles.                     *)
(***************************************************************************)
MaxRendered == 2       \* most statements in the documents handed to render

\* the lengths of the long action: from documents that fit in every style
\* to documents that fit in none
FillerLengths ==
    (MAX_MANAGED_POLICY_SIZE - 560)..(MAX_MANAGED_POLICY_SIZE - 120)

\* an Allow statement of two actions and a Deny statement of two resources
RenderShort ==
    {[action_key |-> "Action", action |-> StrList(<<act_a, act_b>>),
      resource_key |-> "Resource", resource |-> BareStr(res_2),
      sid |-> <<>>, rest |-> AllowRest],
     [action_key |-> "Action", action |-> BareStr(act_a),
      resource_key |-> "Resource", resource |-> StrList(<<res_1, res_2>>),
      sid |-> <<>>, rest |-> DenyRest]}

RenderInputs ==
    ListsUpTo(RenderShort, MaxRendered)
    \cup {<<LongStatement(97, n)>> \o short :
             n \in FillerLengths, short \in ListsUpTo(RenderShort, MaxRendered - 1)}

RenderInit ==
    /\ pc = "render"
    /\ \E statements \in RenderInputs :
           render_data = models_Policy([i \in 1..Len(statements) |->
                                           InternalStatement(statements[i])])
    /\ render_packed = Idle
    /\ supplied = Idle
    /\ built = Idle
    /\ write_call = Idle
    /\ output_dir = Idle
    /\ output_dir_before = Idle
    /\ write_outcome = Idle
    /\ parse_statement = Idle
    /\ parsed = Idle
    /\ objects = Idle
    /\ objects_before = Idle
    /\ group_call = Idle
    /\ group_result = Idle
    /\ split_call = Idle
    /\ splitted = Idle
    /\ as_json = Idle
    /\ parsed_again = Idle
    /\ pack_call = Idle
    /\ pack_results = Idle
    /\ items = Idle
    /\ new_items = Idle
    /\ again = Idle
    /\ internal_statements = Idle
    /\ input_statements = Idle
    /\ this_changed = FALSE
    /\ iterations = 0
    /\ reminified = Idle
    /\ policies = Idle
    /\ new_policy = Idle
    /\ packed_list = Idle
    /\ packed_sets = Idle
    /\ combined = Idle

\* a style fits: its text is returned
RenderReturn ==
    /\ pc = "render"
    /\ Policy_render(render_data).result = "returned"
    /\ render_packed' = Policy_render(render_data)
    /\ pc' = "rendered"
    /\ UNCHANGED <<render_data, reduceVars, minifyVars, combineVars, packVars,
                   documentVars, writeVars, parseVars,
                   groupVars, splitVars, jsonVars>>

\* no style fits: UnshrinkablePolicyError
RenderRaise ==
    /\ pc = "render"
    /\ Policy_render(render_data).result = "UnshrinkablePolicyError"
    /\ render_packed' = Policy_render(render_data)
    /\ pc' = "raised"
    /\ UNCHANGED <<render_data, reduceVars, minifyVars, combineVars, packVars,
                   documentVars, writeVars, parseVars,
                   groupVars, splitVars, jsonVars>>

RenderNext == RenderReturn \/ RenderRaise

SpecRender == RenderInit /\ [][RenderNext]_vars

(***************************************************************************)
(* Claims about Policy.render, under SpecRender.                           *)
(***************************************************************************)
\* the length of the document in the style of the given indent and
\* separators
StyleLength(indent, item_separator, key_separator) ==
    policy_dumps_len(render_data,
                     [indent |-> indent, item_separator |-> item_separator,
                      key_separator |-> key_separator])

\* indent 4, indent 2, tab indent, default separators, compact
StyleLengths ==
    <<StyleLength(4, 1, 2), StyleLength(2, 1, 2), StyleLength(1, 1, 2),
      StyleLength(NoIndent, 2, 2),
      policy_tiniest_len(Policy(rendered(render_data.statements)))>>

\* C15: render tries indent 4, indent 2, tab indent, default separators and
\* compact in this order and returns the first whose length is at most
\* 6144; it raises UnshrinkablePolicyError exactly when the compact form is
\* longer than 6144, and never returns a text longer than 6144.
C15_FirstStyleThatFits ==
    pc # "render" =>
        /\ pc = "raised" <=> StyleLengths[5] > 6144
        /\ pc = "raised" => render_packed.result = "UnshrinkablePolicyError"
        /\ pc = "rendered" =>
               /\ render_packed.result = "returned"
               /\ render_packed.style \in 1..5
               /\ render_packed.length = StyleLengths[render_packed.style]
               /\ render_packed.length <= 6144
               /\ \A k \in 1..(render_packed.style - 1) : StyleLengths[k] > 6144

\* the tab-indented text is returned and is exactly as long as the limit
C15_Witness ==
    /\ pc = "rendered"
    /\ render_packed.style = 3
    /\ render_packed.length = 6144
    /\ StyleLengths[2] > 6144

(***************************************************************************)
(* models.Policy as a document: str() is the compact text with DEFAULT_ID  *)
(* in the place of the Id, the Id is a digest of that text, and as_json()  *)
(* is what render() serializes.  A text is represented by the data that    *)
(* json.dumps is given, which determines it and which it determines; the   *)
(* digest of a text is represented by the text, so that two documents have *)
(* the same Id exactly when their str() is the same.                       *)
(***************************************************************************)
DEFAULT_ID == Rep(Star, DEFAULT_ID_LENGTH)

\* Policy.__str__
Policy_str(policy) ==
    [Version |-> policy.version, Id |-> DEFAULT_ID,
     Statement |-> rendered(policy.statements)]

\* Policy.id
Policy_id(policy) == [sha256 |-> Policy_str(policy)]

\* Policy.as_json
Policy_as_json(policy) ==
    [Version |-> policy.version, Id |-> Policy_id(policy),
     Statement |-> rendered(policy.statements)]

(***************************************************************************)
(* Specification of building a document twice: from a list of statements   *)
(* and from the same statements in another order.                          *)
(***************************************************************************)
MaxBuilt == 3          \* most statements in the documents built

\* statements that differ in one part each from the first one
BuiltStatements ==
    {s \in SmallStatements :
        \/ s.action = BareStr(act_a) /\ s.resource.kind = "str"
        \/ s.action = BareStr(act_b) /\ s.resource = BareStr(res_1)
        \/ s.action = BareStr(act_a) /\ <<Star>> \in to_set(s.resource)}

DocumentInit ==
    /\ pc = "Policy"
    /\ \E statements \in ListsUpTo(BuiltStatements, MaxBuilt) :
           \E order \in Orderings(1..Len(statements)) :
               supplied = [first |-> [i \in 1..Len(statements) |->
                                         InternalStatement(statements[i])],
                           second |-> [i \in 1..Len(statements) |->
                                          InternalStatement(statements[order[i]])]]
    /\ built = Idle
    /\ write_call = Idle
    /\ output_dir = Idle
    /\ output_dir_before = Idle
    /\ write_outcome = Idle
    /\ parse_statement = Idle
    /\ parsed = Idle
    /\ objects = Idle
    /\ objects_before = Idle
    /\ group_call = Idle
    /\ group_result = Idle
    /\ split_call = Idle
    /\ splitted = Idle
    /\ as_json = Idle
    /\ parsed_again = Idle
    /\ render_data = Idle
    /\ render_packed = Idle
    /\ pack_call = Idle
    /\ pack_results = Idle
    /\ items = Idle
    /\ new_items = Idle
    /\ again = Idle
    /\ internal_statements = Idle
    /\ input_statements = Idle
    /\ this_changed = FALSE
    /\ iterations = 0
    /\ reminified = Idle
    /\ policies = Idle
    /\ new_policy = Idle
    /\ packed_list = Idle
    /\ packed_sets = Idle
    /\ combined = Idle

\* Policy(statements) on each of the two lists
BuildDocuments ==
    /\ pc = "Policy"
    /\ built' = [first |-> models_Policy(supplied.first),
                 second |-> models_Policy(supplied.second)]
    /\ pc' = "built"
    /\ UNCHANGED <<supplied, reduceVars, minifyVars, combineVars, packVars,
                   renderVars, writeVars, parseVars,
                   groupVars, splitVars, jsonVars>>

DocumentNext == BuildDocuments

SpecDocument == DocumentInit /\ [][DocumentNext]_vars

(***************************************************************************)
(* Claims about documents, under SpecDocument.                             *)
(***************************************************************************)
\* C16: two documents built from the same statements supplied in different
\* orders have the same statement order, the same Id and the same
\* serialization, whatever the statements.
C16_OrderOfSupplyIsForgotten ==
    pc = "built" =>
        /\ built.first.statements = built.second.statements
        /\ Policy_id(built.first) = Policy_id(built.second)
        /\ Policy_as_json(built.first) = Policy_as_json(built.second)

\* two statements of the list have the same sorting key
KeysTie ==
    \E i, j \in 1..Len(supplied.first) :
        /\ supplied.first[i] # supplied.first[j]
        /\ sorting_key(supplied.first[i]) = sorting_key(supplied.first[j])

\* the two documents are the same when no two different statements have the
\* same sorting key
SameDocumentsUnlessKeysTie == ~KeysTie => C16_OrderOfSupplyIsForgotten

(***************************************************************************)
(* Claims about the first return of combine, under SpecCombine.            *)
(***************************************************************************)
\* the compact text of the merged statements in one document is within
\* the cap
MergedFitsCap ==
    policy_dumps_len(models_Policy(minify(policies)), JSON_ARGS[5])
        <= MAX_MANAGED_POLICY_SIZE

\* the statements of the one document returned
ReturnedStatements == statement_list(combined.policies[1])

\* the statement in the form in which it is written: its actions reduced,
\* its resources canonicalized, its Sid dropped
CanonicalForm(statement) == statement_render(InternalStatement(statement))

\* a value in the form the statement model keeps: a single string, or a
\* list of strings in ascending order
IsCanonicalValue(value) ==
    \/ value.kind = "str"
    \/ \A i, j \in 1..Len(value.elems) :
           i < j => StrLess(value.elems[i], value.elems[j])

\* C17: when the merged document fits the cap, combine returns exactly one
\* document, holding the merged statements in canonical form and sorted;
\* one document with a single fitting statement gives that statement in
\* canonical form (a resource list of one element becomes a bare string),
\* and an empty list of documents gives one document without statements.
C17_FittingMergeIsReturned ==
    MergedFitsCap =>
        /\ pc \in {"combine", "merged", "returned"}
        /\ pc = "returned" =>
               /\ combined.result = "returned"
               /\ Len(combined.policies) = 1
               /\ ReturnedStatements = rendered(sorted_by_key(minify(policies)))
               /\ \A i, j \in 1..Len(ReturnedStatements) :
                      i < j => ~KeyLess(
                          sorting_key(InternalStatement(ReturnedStatements[j])),
                          sorting_key(InternalStatement(ReturnedStatements[i])))
               /\ \A i \in 1..Len(ReturnedStatements) :
                      /\ IsCanonicalValue(ReturnedStatements[i].action)
                      /\ IsCanonicalValue(ReturnedStatements[i].resource)
               /\ (Len(policies) = 1 /\ Len(statement_list(policies[1])) = 1) =>
                      ReturnedStatements
                          = <<CanonicalForm(statement_list(policies[1])[1])>>
               /\ policies = <<>> => ReturnedStatements = <<>>

\* test_policy_combine_small: the resource ["Disco"] is returned as "Disco"
C17_Witness ==
    /\ pc = "returned"
    /\ policies = <<Policy(test_policy_combine_small)>>
    /\ Len(combined.policies) = 1
    /\ ReturnedStatements[1].resource = BareStr(<<68, 105, 115, 99, 111>>)

(***************************************************************************)
(* policy.write_policy_set.  The directory is a function from the names of *)
(* its files to their contents; a name is a string.  A file holds a text   *)
(* that is not JSON, or a JSON object written in some style: the text of   *)
(* an object is represented by the object and the style.                   *)
(***************************************************************************)
Underscore == 95       \* "_"
Plus == 43             \* "+"
Slash == 47            \* "/"
Zero == 48             \* "0"
DotJson == <<Dot, 106, 115, 111, 110>>        \* ".json"
CleanupLimit == 10     \* "if len(cleanup) > 10"

RECURSIVE str_of_int(_)
\* str(i) of f"{base_name}_{i}.json"
str_of_int(i) ==
    IF i < 10 THEN <<Zero + i>>
    ELSE str_of_int(i \div 10) \o <<Zero + (i % 10)>>

\* f"{base_name}_{i}.json"
output_path(base_name, i) ==
    base_name \o <<Underscore>> \o str_of_int(i) \o DotJson

\* policy_set.rsplit("/", maxsplit=1)[-1]
final_of(policy_set) ==
    LET slashes == {k \in 1..Len(policy_set) : policy_set[k] = Slash}
    IN  IF slashes = {} THEN policy_set
        ELSE SubSeq(policy_set,
                    (CHOOSE k \in slashes : \A m \in slashes : m <= k) + 1,
                    Len(policy_set))

\* Path.stem: the name without its last suffix
stem(name) ==
    LET dots == {k \in 2..(Len(name) - 1) : name[k] = Dot}
    IN  IF dots = {} THEN name
        ELSE SubSeq(name, 1, (CHOOSE k \in dots : \A m \in dots : m <= k) - 1)

\* output_dir.glob(f"{base_name}_*"): the names that begin with base_name
\* and "_"; base_name holds none of "*", "?" and "["
glob_matches(base_name, name) ==
    /\ Len(name) > Len(base_name)
    /\ SubSeq(name, 1, Len(base_name) + 1) = base_name \o <<Underscore>>

IsDigit(c) == c \in Zero..(Zero + 9)

RECURSIVE pattern_match(_, _, _, _)
\* re.compile(rf"^{final}_\d+$").match(text) from position i of final and
\* position j of text.  final is not escaped: "." stands for any character
\* and "+" repeats what precedes it; other characters of final stand for
\* themselves (final holds no other character that is special in a regular
\* expression, and does not begin with "+")
pattern_match(final, i, text, j) ==
    IF i > Len(final)
    THEN /\ j < Len(text)
         /\ text[j] = Underscore
         /\ \A k \in (j + 1)..Len(text) : IsDigit(text[k])
    ELSE /\ j <= Len(text)
         /\ final[i] = Dot \/ final[i] = text[j]
         /\ IF i < Len(final) /\ final[i + 1] = Plus
            THEN \/ pattern_match(final, i + 2, text, j + 1)
                 \/ pattern_match(final, i, text, j + 1)
            ELSE pattern_match(final, i + 1, text, j + 1)

\* the set comprehension that fills cleanup
cleanup_of(directory, base_name) ==
    {candidate \in DOMAIN directory :
        /\ glob_matches(base_name, candidate)
        /\ pattern_match(final_of(base_name), 1, stem(candidate), 1)}

\* a file that is not JSON: "fnord"
Fnord == [json |-> FALSE, style |-> 0, data |-> [text |-> "fnord"]]

\* a file holding the JSON object {"what": "fnord"}
WhatFnord == [json |-> TRUE, style |-> 4, data |-> [what |-> "fnord"]]

\* policy.render(), as the text that write_text is given
rendered_text(policy) ==
    [json |-> TRUE, style |-> Policy_render(policy).style,
     data |-> Policy_as_json(policy)]

\* Policy.from_dict on an object read from a file: the statements under
\* "Statement" (none without the key; the files of the model hold a list
\* there, never a single statement) and the version under "Version" (the
\* default without the key)
from_dict(data) ==
    LET statements ==
            IF "Statement" \in DOMAIN data THEN data.Statement ELSE <<>>
        made == models_Policy([i \in 1..Len(statements) |->
                                  InternalStatement(statements[i])])
    IN  IF "Version" \in DOMAIN data
        THEN [made EXCEPT !.version = data.Version]
        ELSE made

\* Policy.__eq__
Policy_eq(policy, other) == Policy_as_json(policy) = Policy_as_json(other)

\* one iteration of the for loop of write_policy_set, for policy i.  run
\* holds the directory, cleanup, output_filenames, and the names given to
\* write_text
write_step(base_name, policy, i, run) ==
    LET path == output_path(base_name, i)
        visited == [run EXCEPT
                       !.output_filenames = Append(run.output_filenames, path),
                       !.cleanup = run.cleanup \ {path}]
        write_text ==
            IF Policy_render(policy).result = "returned"
            THEN [visited EXCEPT
                     !.directory =
                         [name \in DOMAIN run.directory \cup {path} |->
                             IF name = path THEN rendered_text(policy)
                             ELSE run.directory[name]],
                     !.wrote = Append(run.wrote, path)]
            ELSE [visited EXCEPT !.result = "UnshrinkablePolicyError"]
    IN  IF path \notin DOMAIN run.directory THEN write_text
        ELSE IF ~run.directory[path].json
        THEN [visited EXCEPT !.result = "JSONDecodeError"]
        ELSE IF Policy_eq(policy, from_dict(run.directory[path].data))
        THEN visited
        ELSE write_text

RECURSIVE write_loop(_, _, _, _)
\* the for loop of write_policy_set from policy i on; an error ends it.
\* (The iteration is computed once, as the member of a set of one element,
\* and not once for each of its uses.)
write_loop(base_name, policy_list, i, run) ==
    IF i > Len(policy_list) \/ run.result # "returned" THEN run
    ELSE CHOOSE last \in
             {write_loop(base_name, policy_list, i + 1, step) :
                 step \in {write_step(base_name, policy_list[i], i, run)}} :
             TRUE

\* "if len(cleanup) > 10"
too_many(cleanup) == Cardinality(cleanup) > CleanupLimit

\* what write_policy_set does after the loop: it raises the error of the
\* loop, or deletes what is left in cleanup and returns output_filenames
write_end(base_name, run) ==
    IF run.result # "returned"
    THEN [directory |-> run.directory,
          result |-> run.result,
          policy_set |-> base_name, policies |-> 0,
          output_filenames |-> <<>>, wrote |-> run.wrote, unlinked |-> {}]
    ELSE [directory |-> [name \in DOMAIN run.directory \ run.cleanup |->
                            run.directory[name]],
          result |-> "returned",
          policy_set |-> base_name, policies |-> 0,
          output_filenames |-> run.output_filenames,
          wrote |-> run.wrote, unlinked |-> run.cleanup]

\* write_policy_set: the directory it leaves, what it returns or raises,
\* the files it wrote and the files it deleted
write_policy_set(directory, base_name, policy_list) ==
    CHOOSE outcome \in
        {IF too_many(cleanup)
         THEN [directory |-> directory,
               result |-> "TooManyPoliciesError",
               policy_set |-> base_name, policies |-> Cardinality(cleanup),
               output_filenames |-> <<>>, wrote |-> <<>>, unlinked |-> {}]
         ELSE CHOOSE ended \in
                  {write_end(base_name, run) :
                      run \in {write_loop(
                                  base_name, policy_list, 1,
                                  [directory |-> directory, cleanup |-> cleanup,
                                   output_filenames |-> <<>>, wrote |-> <<>>,
                                   result |-> "returned"])}} :
                  TRUE :
            cleanup \in {cleanup_of(directory, base_name)}} :
        TRUE

(***************************************************************************)
(* Specification of write_policy_set: a directory with files of the set,   *)
(* a file of another set whose name begins with the name of the set, one   *)
(* call, and a second call with the same arguments after the first has     *)
(* returned.                                                               *)
(***************************************************************************)
MaxWritten == 2        \* most documents handed to write_policy_set
MaxIndex == 3          \* largest index of the files chosen one by one

\* "foo", and a name with a character that is special in a regular
\* expression: "a+b"
BaseNames == {<<102, 111, 111>>, <<97, Plus, 98>>}

\* base_name + "_bar": another set
other_set(base_name) == base_name \o <<Underscore, 98, 97, 114>>

\* a document without statements, a document of one statement, and a
\* document of one statement whose actions "a*" and "ab" are written as
\* ["a*"]
WritePolicies ==
    { models_Policy(<<>>),
      models_Policy(<<InternalStatement(
          [action_key |-> "Action", action |-> BareStr(act_a),
           resource_key |-> "Resource", resource |-> BareStr(res_1),
           sid |-> <<>>, rest |-> AllowRest])>>),
      models_Policy(<<InternalStatement(
          [action_key |-> "Action",
           action |-> StrList(<< <<97, Star>>, <<97, 98>> >>),
           resource_key |-> "Resource", resource |-> BareStr(res_1),
           sid |-> <<>>, rest |-> AllowRest])>>) }

\* the indices of the files of the set: any of 0..MaxIndex, or so many that
\* there are as many files as the limit, one more, and two more
IndexSets ==
    (SUBSET (0..MaxIndex))
        \cup {0..(CleanupLimit - 1), 0..CleanupLimit, 0..(CleanupLimit + 1)}

\* what the files of the set hold before the call
OldContents == {Fnord, WhatFnord} \cup {rendered_text(p) : p \in WritePolicies}

\* base_name + "_1.txt": a file that is not a ".json" file
text_file(base_name) ==
    base_name \o <<Underscore, Zero + 1, Dot, 116, 120, 116>>

\* base_name + "_x.json": a ".json" file whose suffix is not a number
lettered_file(base_name) == base_name \o <<Underscore, 120>> \o DotJson

\* the directory with the files of the given indices, one file of the
\* other set and the other files given
directory_of(base_name, indices, content, others) ==
    [name \in {output_path(base_name, i) : i \in indices}
                  \cup {output_path(other_set(base_name), 1)} \cup others |->
        IF name \in {output_path(base_name, i) : i \in indices} THEN content
        ELSE WhatFnord]

\* what a call reports: everything but the directory
outcome_of(run) ==
    [result |-> run.result, policy_set |-> run.policy_set,
     policies |-> run.policies, output_filenames |-> run.output_filenames,
     wrote |-> run.wrote, unlinked |-> run.unlinked]

WriteInit ==
    /\ pc = "write_policy_set"
    /\ \E base_name \in BaseNames :
       \E policy_list \in ListsUpTo(WritePolicies, MaxWritten) :
       \E indices \in IndexSets :
       \E content \in OldContents :
       \E others \in SUBSET {text_file(base_name), lettered_file(base_name)} :
           /\ write_call = [base_name |-> base_name, policies |-> policy_list]
           /\ output_dir = directory_of(base_name, indices, content, others)
    /\ output_dir_before = output_dir
    /\ write_outcome = Idle
    /\ parse_statement = Idle
    /\ parsed = Idle
    /\ objects = Idle
    /\ objects_before = Idle
    /\ group_call = Idle
    /\ group_result = Idle
    /\ split_call = Idle
    /\ splitted = Idle
    /\ as_json = Idle
    /\ parsed_again = Idle
    /\ supplied = Idle
    /\ built = Idle
    /\ render_data = Idle
    /\ render_packed = Idle
    /\ pack_call = Idle
    /\ pack_results = Idle
    /\ items = Idle
    /\ new_items = Idle
    /\ again = Idle
    /\ internal_statements = Idle
    /\ input_statements = Idle
    /\ this_changed = FALSE
    /\ iterations = 0
    /\ reminified = Idle
    /\ policies = Idle
    /\ new_policy = Idle
    /\ packed_list = Idle
    /\ packed_sets = Idle
    /\ combined = Idle

\* the first call returns
WriteReturn ==
    /\ pc = "write_policy_set"
    /\ \E run \in {write_policy_set(output_dir, write_call.base_name,
                                     write_call.policies)} :
           /\ run.result = "returned"
           /\ output_dir' = run.directory
           /\ write_outcome' = outcome_of(run)
    /\ output_dir_before' = output_dir
    /\ pc' = "written"
    /\ UNCHANGED <<write_call, reduceVars, minifyVars, combineVars, packVars,
                   renderVars, documentVars, parseVars,
                   groupVars, splitVars, jsonVars>>

\* the first call raises: TooManyPoliciesError before anything is written,
\* or an error of the loop after some files may have been written
WriteRaise ==
    /\ pc = "write_policy_set"
    /\ \E run \in {write_policy_set(output_dir, write_call.base_name,
                                     write_call.policies)} :
           /\ run.result # "returned"
           /\ output_dir' = run.directory
           /\ write_outcome' = outcome_of(run)
    /\ output_dir_before' = output_dir
    /\ pc' = "raised"
    /\ UNCHANGED <<write_call, reduceVars, minifyVars, combineVars, packVars,
                   renderVars, documentVars, parseVars,
                   groupVars, splitVars, jsonVars>>

\* a second call with the same arguments
WriteAgain ==
    /\ pc = "written"
    /\ \E run \in {write_policy_set(output_dir, write_call.base_name,
                                     write_call.policies)} :
           /\ output_dir' = run.directory
           /\ write_outcome' = outcome_of(run)
    /\ output_dir_before' = output_dir
    /\ pc' = "rewritten"
    /\ UNCHANGED <<write_call, reduceVars, minifyVars, combineVars, packVars,
                   renderVars, documentVars, parseVars,
                   groupVars, splitVars, jsonVars>>

WriteNext == WriteReturn \/ WriteRaise \/ WriteAgain

SpecWrite == WriteInit /\ [][WriteNext]_vars

(***************************************************************************)
(* Claims about write_policy_set, under SpecWrite.                         *)
(***************************************************************************)
\* the name is base_name, "_", one or more digits and ".json"
IsFileOfSet(name, base_name) ==
    LET prefix == base_name \o <<Underscore>>
    IN  /\ Len(name) > Len(prefix) + Len(DotJson)
        /\ SubSeq(name, 1, Len(prefix)) = prefix
        /\ SubSeq(name, Len(name) - Len(DotJson) + 1, Len(name)) = DotJson
        /\ \A k \in (Len(prefix) + 1)..(Len(name) - Len(DotJson)) :
               IsDigit(name[k])

FilesOfSet(directory) ==
    {name \in DOMAIN directory : IsFileOfSet(name, write_call.base_name)}

\* base_1.json ... base_N.json
NewFiles ==
    [i \in 1..Len(write_call.policies) |-> output_path(write_call.base_name, i)]

\* C18: after write_policy_set has returned, the files named
\* base_<digits>.json are exactly base_1.json ... base_N.json, whatever
\* files of the set there were before; it returns these N names in the
\* order of the indices, and the files of another set whose name begins
\* with the name of this set are there with their content unchanged.
C18_ExactlyTheNewFiles ==
    pc = "written" =>
        /\ FilesOfSet(output_dir) = SeqToSet(NewFiles)
        /\ write_outcome.output_filenames = NewFiles
        /\ \A name \in DOMAIN output_dir_before :
               IsFileOfSet(name, other_set(write_call.base_name)) =>
                   /\ name \in DOMAIN output_dir
                   /\ output_dir[name] = output_dir_before[name]

\* what C18 states holds when the name of the set has no character that
\* is special in a regular expression
ExactlyTheNewFilesOfPlainNames ==
    (\A k \in 1..Len(write_call.base_name) :
         write_call.base_name[k] \notin {Dot, Plus})
        => C18_ExactlyTheNewFiles

\* C19: when more than 10 files of the directory are named
\* base_<digits>.json, write_policy_set raises TooManyPoliciesError with
\* the name of the set and the number of these files, and the directory is
\* unchanged; with 10 such files or fewer it does not raise this error.
C19_TooManyIsRefused ==
    pc \in {"written", "raised"} =>
        /\ Cardinality(FilesOfSet(output_dir_before)) > 10 =>
               /\ pc = "raised"
               /\ write_outcome.result = "TooManyPoliciesError"
               /\ write_outcome.policy_set = write_call.base_name
               /\ write_outcome.policies
                      = Cardinality(FilesOfSet(output_dir_before))
               /\ output_dir = output_dir_before
               /\ write_outcome.wrote = <<>>
               /\ write_outcome.unlinked = {}
        /\ Cardinality(FilesOfSet(output_dir_before)) <= 10 =>
               write_outcome.result # "TooManyPoliciesError"

\* the files that the program takes for files of the set
Matching(directory) == cleanup_of(directory, write_call.base_name)

\* what C19 states holds of the files that the program takes for files of
\* the set
TooManyOfCleanupIsRefused ==
    pc \in {"written", "raised"} =>
        /\ Cardinality(Matching(output_dir_before)) > 10 =>
               /\ pc = "raised"
               /\ write_outcome.result = "TooManyPoliciesError"
               /\ write_outcome.policy_set = write_call.base_name
               /\ write_outcome.policies
                      = Cardinality(Matching(output_dir_before))
               /\ output_dir = output_dir_before
        /\ Cardinality(Matching(output_dir_before)) <= 10 =>
               write_outcome.result # "TooManyPoliciesError"

\* C20: the second of two calls with the same arguments writes no file and
\* deletes no file, so that it leaves the directory as it found it.
C20_SecondCallTouchesNothing ==
    pc = "rewritten" =>
        /\ write_outcome.result = "returned"
        /\ write_outcome.wrote = <<>>
        /\ write_outcome.unlinked = {}
        /\ output_dir = output_dir_before

\* a statement of the document is written with a list of one element
OneElementList(policy) ==
    \E i \in 1..Len(policy.statements) :
        LET statement == statement_render(policy.statements[i])
        IN  \/ statement.action.kind = "list" /\ Len(statement.action.elems) = 1
            \/ statement.resource.kind = "list"
                   /\ Len(statement.resource.elems) = 1

\* what C20 states holds when no document is written with a list of one
\* element
SecondCallTouchesNothingWithoutOneElementLists ==
    (\A i \in 1..Len(write_call.policies) :
         ~OneElementList(write_call.policies[i]))
        => C20_SecondCallTouchesNothing

\* the second call returns, deletes nothing, and leaves every file with
\* the content it had
SecondCallChangesNoContent ==
    pc = "rewritten" =>
        /\ write_outcome.result = "returned"
        /\ write_outcome.unlinked = {}
        /\ output_dir = output_dir_before

(***************************************************************************)
(* The files that are not files of the set.                                *)
(***************************************************************************)
\* the files of the directory before the call that are still there, with
\* the content they had
LeftInPlace(name) ==
    /\ name \in DOMAIN output_dir
    /\ output_dir[name] = output_dir_before[name]

\* C21: no call of write_policy_set deletes or overwrites a file whose name
\* is not the final path component of base_name, "_", one or more digits
\* and ".json": base_bar_1.json, base_x.json and base_1.txt are left in
\* place with their content.
C21_OtherFilesAreLeftAlone ==
    pc \in {"written", "raised", "rewritten"} =>
        \A name \in DOMAIN output_dir_before :
            ~IsFileOfSet(name, final_of(write_call.base_name))
                => LeftInPlace(name)

\* what C21 states holds of the files whose suffix is ".json"
OtherJsonFilesAreLeftAlone ==
    pc \in {"written", "raised", "rewritten"} =>
        \A name \in DOMAIN output_dir_before :
            (/\ ~IsFileOfSet(name, final_of(write_call.base_name))
             /\ SubSeq(name, Len(name) - Len(DotJson) + 1, Len(name)) = DotJson)
                => LeftInPlace(name)

(***************************************************************************)
(* models.Statement: the fields derived from the mapping found in a        *)
(* document.  The mapping is a function from its keys to their values; it  *)
(* may hold both keys of a pair, or neither.                               *)
(***************************************************************************)
ACTION_KEYS == <<"Action", "NotAction">>
RESOURCE_KEYS == <<"Resource", "NotResource">>

\* the spelling of the keys of a statement
StatementKey ==
    [Effect |-> Effect,
     Action |-> <<65, 99, 116, 105, 111, 110>>,
     NotAction |-> <<78, 111, 116, 65, 99, 116, 105, 111, 110>>,
     Resource |-> <<82, 101, 115, 111, 117, 114, 99, 101>>,
     NotResource |-> <<78, 111, 116, 82, 101, 115, 111, 117, 114, 99, 101>>,
     Sid |-> <<83, 105, 100>>]

\* a choice that does not refuse a statement with both keys: the left key
\* when it is there
which_type_LeftWins(statement, choices) ==
    IF choices[1] \in DOMAIN statement
    THEN [result |-> "returned", value |-> choices[1]]
    ELSE IF choices[2] \in DOMAIN statement
    THEN [result |-> "returned", value |-> choices[2]]
    ELSE [result |-> "ValueError", value |-> "neither"]

\* which_type: ValueError when both keys or neither key is in the
\* statement, else the key that is
which_type(statement, choices) ==
    LET left == choices[1]
        right == choices[2]
        has_left == left \in DOMAIN statement
        has_right == right \in DOMAIN statement
    IN  IF has_left /\ has_right
        THEN [result |-> "ValueError", value |-> "both"]
        ELSE IF ~(has_left \/ has_right)
        THEN [result |-> "ValueError", value |-> "neither"]
        ELSE [result |-> "returned",
              value |-> IF has_left THEN left ELSE right]

\* Statement.rest: everything but the Sid, the action key and the resource
\* key of the statement
Statement_rest(statement, action_key, resource_key) ==
    LET kept == DOMAIN statement \ {"Sid", action_key, resource_key}
    IN  [k \in {StatementKey[key] : key \in kept} |->
            statement[CHOOSE key \in kept : StatementKey[key] = k]]

\* the fields of Statement(statement), read in the order action_key,
\* action_value, resource_key, resource_value, rest; the first ValueError
\* ends the reading
Statement_fields(statement) ==
    LET action == which_type(statement, ACTION_KEYS)
        resource == which_type(statement, RESOURCE_KEYS)
    IN  IF action.result # "returned" THEN action
        ELSE IF resource.result # "returned" THEN resource
        ELSE [result |-> "returned",
              value |-> InternalStatement(
                  [action_key |-> action.value,
                   action |-> statement[action.value],
                   resource_key |-> resource.value,
                   resource |-> statement[resource.value],
                   sid |-> IF "Sid" \in DOMAIN statement THEN statement.Sid
                           ELSE <<>>,
                   rest |-> Statement_rest(statement, action.value,
                                           resource.value)])]

\* Statement.as_json(): a copy of rest with the reduced actions under the
\* action key and the resource value under the resource key
Statement_as_json(statement) ==
    LET fields == Statement_fields(statement).value
        json == statement_render(fields)
    IN  [key \in DOMAIN statement \ {"Sid"} |->
            IF key = fields.action_key THEN json.action
            ELSE IF key = fields.resource_key THEN json.resource
            ELSE statement[key]]

(***************************************************************************)
(* Specification of the parsing of one statement: a mapping with any of    *)
(* the keys Action, NotAction, Resource, NotResource, Effect and Sid.      *)
(***************************************************************************)
sid_Knee == <<75, 110, 101, 101>>      \* "Knee"

ParseKeys == {"Action", "NotAction", "Resource", "NotResource", "Effect", "Sid"}

act_a_star == <<97, Star>>          \* "a*"
act_ab == <<97, 98>>                \* "ab"

\* the values of every key: strings, lists, and lists in which a wildcard
\* covers another element
ParseValues ==
    [Action |-> {BareStr(act_a), StrList(<<act_a, act_b>>),
                 StrList(<<act_a_star, act_ab>>)},
     NotAction |-> {BareStr(act_b), StrList(<<act_b, act_a>>)},
     Resource |-> {BareStr(res_1), StrList(<<res_2, <<Star>>, res_1>>),
                   StrList(<<res_star, res_1>>)},
     NotResource |-> {BareStr(<<Star>>), StrList(<<res_2, res_1>>)},
     Effect |-> {Allow, Deny},
     Sid |-> {sid_El, sid_Knee}]

ParseInit ==
    /\ pc = "Statement"
    /\ \E keys \in SUBSET ParseKeys :
       \E action \in ParseValues.Action, notaction \in ParseValues.NotAction,
          resource \in ParseValues.Resource,
          notresource \in ParseValues.NotResource,
          effect \in ParseValues.Effect, sid \in ParseValues.Sid :
           parse_statement =
               [key \in keys |->
                   [Action |-> action, NotAction |-> notaction,
                    Resource |-> resource, NotResource |-> notresource,
                    Effect |-> effect, Sid |-> sid][key]]
    /\ parsed = Idle
    /\ objects = Idle
    /\ objects_before = Idle
    /\ group_call = Idle
    /\ group_result = Idle
    /\ split_call = Idle
    /\ splitted = Idle
    /\ as_json = Idle
    /\ parsed_again = Idle
    /\ write_call = Idle
    /\ output_dir = Idle
    /\ output_dir_before = Idle
    /\ write_outcome = Idle
    /\ supplied = Idle
    /\ built = Idle
    /\ render_data = Idle
    /\ render_packed = Idle
    /\ pack_call = Idle
    /\ pack_results = Idle
    /\ items = Idle
    /\ new_items = Idle
    /\ again = Idle
    /\ internal_statements = Idle
    /\ input_statements = Idle
    /\ this_changed = FALSE
    /\ iterations = 0
    /\ reminified = Idle
    /\ policies = Idle
    /\ new_policy = Idle
    /\ packed_list = Idle
    /\ packed_sets = Idle
    /\ combined = Idle

\* the fields are read
ParseReturn ==
    /\ pc = "Statement"
    /\ Statement_fields(parse_statement).result = "returned"
    /\ parsed' = Statement_fields(parse_statement)
    /\ pc' = "parsed"
    /\ UNCHANGED <<parse_statement, reduceVars, minifyVars, combineVars,
                   packVars, renderVars, documentVars, writeVars,
                   groupVars, splitVars, jsonVars>>

\* which_type raises
ParseRaise ==
    /\ pc = "Statement"
    /\ Statement_fields(parse_statement).result # "returned"
    /\ parsed' = Statement_fields(parse_statement)
    /\ pc' = "raised"
    /\ UNCHANGED <<parse_statement, reduceVars, minifyVars, combineVars,
                   packVars, renderVars, documentVars, writeVars,
                   groupVars, splitVars, jsonVars>>

\* as_json() of the statement that was parsed
ParseAsJson ==
    /\ pc = "parsed"
    /\ as_json' = Statement_as_json(parse_statement)
    /\ pc' = "as_json"
    /\ UNCHANGED <<parsed_again, parseVars, reduceVars, minifyVars,
                   combineVars, packVars, renderVars, documentVars,
                   writeVars, groupVars, splitVars>>

\* Statement(as_json): the mapping returned is parsed
ParseAgain ==
    /\ pc = "as_json"
    /\ parsed_again' = Statement_fields(as_json)
    /\ pc' = "parsed_again"
    /\ UNCHANGED <<as_json, parseVars, reduceVars, minifyVars, combineVars,
                   packVars, renderVars, documentVars, writeVars,
                   groupVars, splitVars>>

ParseNext == ParseReturn \/ ParseRaise \/ ParseAsJson \/ ParseAgain

SpecParse == ParseInit /\ [][ParseNext]_vars

(***************************************************************************)
(* Claims about the parsing of a statement, under SpecParse.               *)
(***************************************************************************)
\* exactly one of the two keys is in the statement
ExactlyOne(choices) ==
    (choices[1] \in DOMAIN parse_statement)
        # (choices[2] \in DOMAIN parse_statement)

\* the key of the pair that is in the statement
KeyPresent(choices) ==
    CHOOSE key \in {choices[1], choices[2]} : key \in DOMAIN parse_statement

\* C22: parsing a statement raises an error when it has both Action and
\* NotAction, neither of them, both Resource and NotResource, or neither of
\* them; with exactly one key of each pair it succeeds, and the statement
\* has the keys that are present.
C22_ExactlyOneOfEachPair ==
    pc \in {"parsed", "raised"} =>
        IF ExactlyOne(ACTION_KEYS) /\ ExactlyOne(RESOURCE_KEYS)
        THEN /\ pc = "parsed"
             /\ parsed.result = "returned"
             /\ parsed.value.action_key = KeyPresent(ACTION_KEYS)
             /\ parsed.value.resource_key = KeyPresent(RESOURCE_KEYS)
        ELSE /\ pc = "raised"
             /\ parsed.result = "ValueError"

\* a statement with NotAction and Resource has been parsed
C22_Witness ==
    /\ pc = "parsed"
    /\ DOMAIN parse_statement
           = {"NotAction", "Resource", "Effect", "Sid"}
    /\ parsed.value.action_key = "NotAction"
    /\ parsed.value.resource_key = "Resource"

(***************************************************************************)
(* grouped_actions and grouped_resources on objects.  A statement of the   *)
(* list is a reference to an InternalStatement object; objects gives the   *)
(* fields of every object.  "existing_item.action_value = ..." assigns to  *)
(* a field of the object that the dictionary and the list handed in both   *)
(* refer to.                                                               *)
(***************************************************************************)
RECURSIVE grouped_actions_objects_loop(_, _, _, _)
\* the for loop of grouped_actions; statement_sets holds, in the order of
\* insertion, the keys of the dictionary and the references stored under
\* them
grouped_actions_objects_loop(heap, statements, statement_sets, changed) ==
    IF statements = <<>>
    THEN [changed |-> changed,
          statements |-> [i \in 1..Len(statement_sets) |->
                             statement_sets[i].item],
          objects |-> heap]
    ELSE LET statement == Head(statements)
             group == grouping_for_actions(heap[statement])
             found == {i \in 1..Len(statement_sets) :
                          statement_sets[i].group = group}
         IN  IF found = {}
             THEN grouped_actions_objects_loop(
                      heap, Tail(statements),
                      Append(statement_sets,
                             [group |-> group, item |-> statement]),
                      changed)
             ELSE LET existing_item ==
                          statement_sets[CHOOSE i \in found : TRUE].item
                      new_action_value ==
                          heap[existing_item].action_value
                              \cup heap[statement].action_value
                  IN  IF heap[existing_item].action_value # new_action_value
                      THEN grouped_actions_objects_loop(
                               [heap EXCEPT ![existing_item].action_value =
                                                new_action_value],
                               Tail(statements), statement_sets, TRUE)
                      ELSE grouped_actions_objects_loop(
                               heap, Tail(statements), statement_sets, changed)

\* grouped_actions: the flag, the references returned, and the objects
\* after the call
grouped_actions_objects(heap, statements) ==
    grouped_actions_objects_loop(heap, statements, <<>>, FALSE)

RECURSIVE grouped_resources_objects_loop(_, _, _, _)
\* the for loop of grouped_resources
grouped_resources_objects_loop(heap, statements, statement_sets, changed) ==
    IF statements = <<>>
    THEN [changed |-> changed,
          statements |-> [i \in 1..Len(statement_sets) |->
                             statement_sets[i].item],
          objects |-> heap]
    ELSE LET statement == Head(statements)
             group == grouping_for_resources(heap[statement])
             found == {i \in 1..Len(statement_sets) :
                          statement_sets[i].group = group}
         IN  IF found = {}
             THEN grouped_resources_objects_loop(
                      heap, Tail(statements),
                      Append(statement_sets,
                             [group |-> group, item |-> statement]),
                      changed)
             ELSE LET existing_item ==
                          statement_sets[CHOOSE i \in found : TRUE].item
                      new_resource_value ==
                          canonicalize_resources(
                              to_set(heap[existing_item].resource_value)
                                  \cup to_set(heap[statement].resource_value))
                  IN  IF heap[existing_item].resource_value
                             # new_resource_value
                      THEN grouped_resources_objects_loop(
                               [heap EXCEPT ![existing_item].resource_value =
                                                new_resource_value],
                               Tail(statements), statement_sets, TRUE)
                      ELSE grouped_resources_objects_loop(
                               heap, Tail(statements), statement_sets, changed)

\* grouped_resources: the flag, the references returned, and the objects
\* after the call
grouped_resources_objects(heap, statements) ==
    grouped_resources_objects_loop(heap, statements, <<>>, FALSE)

(***************************************************************************)
(* Specification of one pass: a list of InternalStatement objects, each    *)
(* made from a statement of its own, is handed to grouped_actions or to    *)
(* grouped_resources.                                                      *)
(***************************************************************************)
MaxGrouped == 3        \* most statements handed to a pass

\* the statement Action "a", Resource "r1", Allow, and statements that
\* differ from it in one thing, or in two
plain_statement ==
    [action_key |-> "Action", action |-> BareStr(act_a),
     resource_key |-> "Resource", resource |-> BareStr(res_1),
     sid |-> <<>>, rest |-> AllowRest]

GroupStatements ==
    {plain_statement}
    \cup {[plain_statement EXCEPT !.action = action] :
             action \in {BareStr(act_b), StrList(<<act_a, act_b>>)}}
    \cup {[plain_statement EXCEPT !.resource = resource] :
             resource \in {BareStr(res_2), BareStr(<<Star>>), BareStr(res_star),
                           StrList(<<res_1, res_2>>),
                           StrList(<<res_2, res_1>>)}}
    \cup {[plain_statement EXCEPT !.sid = sid_El],
          [plain_statement EXCEPT !.sid = sid_Knee, !.action = BareStr(act_b)],
          [plain_statement EXCEPT !.action_key = "NotAction"],
          [plain_statement EXCEPT !.resource_key = "NotResource"],
          [plain_statement EXCEPT !.rest = DenyRest]}

GroupInit ==
    /\ pc = "statements"
    /\ \E statements \in ListsUpTo(GroupStatements, MaxGrouped) :
           /\ objects = [i \in 1..Len(statements) |->
                            InternalStatement(statements[i])]
           /\ group_call = [raw |-> statements,
                            statements |-> [i \in 1..Len(statements) |-> i]]
    /\ objects_before = objects
    /\ group_result = Idle
    /\ split_call = Idle
    /\ splitted = Idle
    /\ as_json = Idle
    /\ parsed_again = Idle
    /\ parse_statement = Idle
    /\ parsed = Idle
    /\ write_call = Idle
    /\ output_dir = Idle
    /\ output_dir_before = Idle
    /\ write_outcome = Idle
    /\ supplied = Idle
    /\ built = Idle
    /\ render_data = Idle
    /\ render_packed = Idle
    /\ pack_call = Idle
    /\ pack_results = Idle
    /\ items = Idle
    /\ new_items = Idle
    /\ again = Idle
    /\ internal_statements = Idle
    /\ input_statements = Idle
    /\ this_changed = FALSE
    /\ iterations = 0
    /\ reminified = Idle
    /\ policies = Idle
    /\ new_policy = Idle
    /\ packed_list = Idle
    /\ packed_sets = Idle
    /\ combined = Idle

\* the list is handed to grouped_actions
GroupActions ==
    /\ pc = "statements"
    /\ \E run \in {grouped_actions_objects(objects, group_call.statements)} :
           /\ objects' = run.objects
           /\ group_result' = [changed |-> run.changed,
                               statements |-> run.statements]
    /\ pc' = "grouped_actions"
    /\ UNCHANGED <<objects_before, group_call, reduceVars, minifyVars,
                   combineVars, packVars, renderVars, documentVars,
                   writeVars, parseVars, splitVars, jsonVars>>

\* the list is handed to grouped_resources
GroupResources ==
    /\ pc = "statements"
    /\ \E run \in {grouped_resources_objects(objects, group_call.statements)} :
           /\ objects' = run.objects
           /\ group_result' = [changed |-> run.changed,
                               statements |-> run.statements]
    /\ pc' = "grouped_resources"
    /\ UNCHANGED <<objects_before, group_call, reduceVars, minifyVars,
                   combineVars, packVars, renderVars, documentVars,
                   writeVars, parseVars, splitVars, jsonVars>>

GroupNext == GroupActions \/ GroupResources

SpecGroup == GroupInit /\ [][GroupNext]_vars

\* the statements handed in, and the statements returned, as values
statements_before ==
    [i \in 1..Len(group_call.statements) |->
        objects_before[group_call.statements[i]]]
statements_returned ==
    [i \in 1..Len(group_result.statements) |->
        objects[group_result.statements[i]]]

\* on objects, the passes return the statements and the flag that minify
\* gets from them
ObjectsPassIsThePassOfMinify ==
    /\ pc = "grouped_actions" =>
           grouped_actions(statements_before)
               = [changed |-> group_result.changed,
                  statements |-> statements_returned]
    /\ pc = "grouped_resources" =>
           grouped_resources(statements_before)
               = [changed |-> group_result.changed,
                  statements |-> statements_returned]

(***************************************************************************)
(* Claims about the two passes, under SpecGroup.  The statements handed in *)
(* are numbered 1..n in the order of the list.                             *)
(***************************************************************************)
Handed == 1..Len(group_call.statements)

\* the k-th of a set of numbers, in increasing order
Kth(numbers, k) ==
    CHOOSE i \in numbers : Cardinality({j \in numbers : j <= i}) = k

\* the key of the action pass: action key, resource key, canonical
\* resource value, and rest
KeyByAction(i) ==
    <<objects_before[i].action_key, objects_before[i].resource_key,
      objects_before[i].resource_value, objects_before[i].rest>>

\* the statements that are the first of the list with their key
FirstByAction == {i \in Handed : \A j \in 1..(i - 1) : KeyByAction(j) # KeyByAction(i)}

\* the actions of every statement of the list with the key of statement i
ActionsOfGroup(i) ==
    UNION {objects_before[j].action_value :
              j \in {j \in Handed : KeyByAction(j) = KeyByAction(i)}}

\* the two statements are written with the same keys, resources and rest:
\* they differ at most in their actions, their Sid, and the order in which
\* their resources are spelled
SameButSidAndSpelling(a, b) ==
    /\ a.action_key = b.action_key
    /\ a.resource_key = b.resource_key
    /\ to_set(a.resource) = to_set(b.resource)
    /\ a.rest = b.rest

\* C23: grouped_actions returns one statement for every distinct key, in
\* the order in which the keys first occur; its actions are the union of
\* the actions of the statements with that key, its keys, resources and
\* rest those of the first of them.  Statements that differ only in Sid or
\* in the order of their resources have the same key.  The flag is true
\* exactly when the actions of the first statement of some key grew.
C23_OneStatementPerActionGroup ==
    pc = "grouped_actions" =>
        /\ Len(statements_returned) = Cardinality(FirstByAction)
        /\ \A k \in 1..Len(statements_returned) :
               LET first == Kth(FirstByAction, k)
               IN  statements_returned[k] =
                       [objects_before[first] EXCEPT
                            !.action_value = ActionsOfGroup(first)]
        /\ \A i, j \in Handed :
               SameButSidAndSpelling(group_call.raw[i], group_call.raw[j])
                   => KeyByAction(i) = KeyByAction(j)
        /\ group_result.changed
               <=> \E i \in FirstByAction :
                       ActionsOfGroup(i) # objects_before[i].action_value

\* three statements: the third has the key of the first, another Sid and
\* another action, the second has another key; two statements are returned
C23_Witness ==
    /\ pc = "grouped_actions"
    /\ Len(group_call.raw) = 3
    /\ KeyByAction(1) = KeyByAction(3)
    /\ KeyByAction(1) # KeyByAction(2)
    /\ group_call.raw[1].sid # group_call.raw[3].sid
    /\ group_call.raw[1].action # group_call.raw[3].action
    /\ Len(statements_returned) = 2
    /\ group_result.changed

\* the key of the resource pass: action key, actions, resource key, rest
KeyByResource(i) ==
    <<objects_before[i].action_key, objects_before[i].action_value,
      objects_before[i].resource_key, objects_before[i].rest>>

FirstByResource ==
    {i \in Handed : \A j \in 1..(i - 1) : KeyByResource(j) # KeyByResource(i)}

\* the resources of every statement of the list with the key of statement i
ResourcesOfGroup(i) ==
    UNION {to_set(objects_before[j].resource_value) :
              j \in {j \in Handed : KeyByResource(j) = KeyByResource(i)}}

\* C24, as stated: grouped_resources returns one statement for every
\* distinct key, in the order in which the keys first occur; its resource
\* value is the canonical reduction of the union of the resources of the
\* statements with that key, its keys, actions and rest those of the first
\* of them.  The flag is true exactly when the resource value of the first
\* statement of some key changed.
C24_OneStatementPerResourceGroup ==
    pc = "grouped_resources" =>
        /\ Len(statements_returned) = Cardinality(FirstByResource)
        /\ \A k \in 1..Len(statements_returned) :
               LET first == Kth(FirstByResource, k)
               IN  statements_returned[k] =
                       [objects_before[first] EXCEPT
                            !.resource_value =
                                canonicalize_resources(ResourcesOfGroup(first))]
        /\ group_result.changed
               <=> \E k \in 1..Len(statements_returned) :
                       statements_returned[k].resource_value
                           # objects_before[Kth(FirstByResource, k)].resource_value


RECURSIVE FoldedFrom(_, _, _)
\* the resource value of the group of statement i, and whether it was ever
\* replaced, after the statements j.. of the list: every statement of the
\* group replaces the value so far by the canonical reduction of its union
\* with the statement's own resources, when the two differ
FoldedFrom(i, j, so_far) ==
    IF j > Len(group_call.statements) THEN so_far
    ELSE IF KeyByResource(j) # KeyByResource(i) THEN FoldedFrom(i, j + 1, so_far)
    ELSE LET next == canonicalize_resources(
                         to_set(so_far.value)
                             \cup to_set(objects_before[j].resource_value))
         IN  FoldedFrom(i, j + 1,
                        [value |-> next,
                         replaced |-> so_far.replaced \/ next # so_far.value])

Folded(i) ==
    FoldedFrom(i, i + 1,
               [value |-> objects_before[i].resource_value, replaced |-> FALSE])

\* C24, amended: grouped_resources returns one statement for every distinct
\* key, in the order in which the keys first occur, with the keys, actions
\* and rest of the first statement of the key.  Its resource value is that
\* of the first statement, replaced for every later statement of the key,
\* in list order, by the canonical reduction of its union with that
\* statement's resources.  The flag is true exactly when some such
\* replacement changed the value.
C24_ResourcesFoldedInListOrder ==
    pc = "grouped_resources" =>
        /\ Len(statements_returned) = Cardinality(FirstByResource)
        /\ \A k \in 1..Len(statements_returned) :
               LET first == Kth(FirstByResource, k)
               IN  statements_returned[k] =
                       [objects_before[first] EXCEPT
                            !.resource_value = Folded(first).value]
        /\ group_result.changed
               <=> \E i \in FirstByResource : Folded(i).replaced

\* three statements of one key: the value returned is not the canonical
\* reduction of the union of their resources, and the flag is true although
\* the value is that of the first statement
C24_Witness ==
    /\ pc = "grouped_resources"
    /\ Len(group_call.raw) = 3
    /\ Len(statements_returned) = 1
    /\ statements_returned[1].resource_value
           # canonicalize_resources(ResourcesOfGroup(1))
    /\ statements_returned[1].resource_value = objects_before[1].resource_value
    /\ group_result.changed


\* the statements returned for a group of several statements of the list
MergedResults ==
    {k \in 1..Len(group_result.statements) :
        IF pc = "grouped_actions"
        THEN \E j \in Handed \ FirstByAction :
                 KeyByAction(j) = KeyByAction(Kth(FirstByAction, k))
        ELSE \E j \in Handed \ FirstByResource :
                 KeyByResource(j) = KeyByResource(Kth(FirstByResource, k))}

\* C25: after grouped_actions or grouped_resources has returned, every
\* statement handed in has the actions and the resource value it had before
\* the call, and a statement returned for a group of several statements is
\* none of the objects handed in.
C25_InputsAreNotMutated ==
    pc \in {"grouped_actions", "grouped_resources"} =>
        /\ \A i \in Handed :
               /\ objects[group_call.statements[i]].action_value
                      = objects_before[group_call.statements[i]].action_value
               /\ objects[group_call.statements[i]].resource_value
                      = objects_before[group_call.statements[i]].resource_value
        /\ \A k \in MergedResults :
               group_result.statements[k] \notin SeqToSet(group_call.statements)

\* every statement handed in that is not the first of its group has, after
\* the call, the actions and the resource value it had before
LaterMembersAreNotMutated ==
    /\ pc = "grouped_actions" =>
           \A i \in Handed \ FirstByAction : objects[i] = objects_before[i]
    /\ pc = "grouped_resources" =>
           \A i \in Handed \ FirstByResource : objects[i] = objects_before[i]

(***************************************************************************)
(* Specification of split_statement: one statement, whose actions are a    *)
(* name or a list of names, and a size.                                    *)
(***************************************************************************)
MaxSplitActions == 4       \* most names in the action list of the statement

SplitNames == {act_a, act_b, spam}

\* a name, or a list of one name or more in which a name may be repeated
SplitActions ==
    {BareStr(name) : name \in SplitNames}
        \cup {StrList(names) :
                 names \in ListsUpTo(SplitNames, MaxSplitActions) \ {<<>>}}

\* the sizes: from less than half of the shortest statement to more than
\* the longest
SplitSizes == {20, 40, 60, 100}

SplitInit ==
    /\ pc = "split_statement"
    /\ \E actions \in SplitActions :
       \E resource \in {BareStr(res_1), StrList(<<res_1, res_2>>)} :
       \E size \in SplitSizes :
           split_call =
               [statement |-> [plain_statement EXCEPT !.action = actions,
                                                      !.resource = resource],
                max_statement_size |-> size]
    /\ splitted = Idle
    /\ as_json = Idle
    /\ parsed_again = Idle
    /\ objects = Idle
    /\ objects_before = Idle
    /\ group_call = Idle
    /\ group_result = Idle
    /\ parse_statement = Idle
    /\ parsed = Idle
    /\ write_call = Idle
    /\ output_dir = Idle
    /\ output_dir_before = Idle
    /\ write_outcome = Idle
    /\ supplied = Idle
    /\ built = Idle
    /\ render_data = Idle
    /\ render_packed = Idle
    /\ pack_call = Idle
    /\ pack_results = Idle
    /\ items = Idle
    /\ new_items = Idle
    /\ again = Idle
    /\ internal_statements = Idle
    /\ input_statements = Idle
    /\ this_changed = FALSE
    /\ iterations = 0
    /\ reminified = Idle
    /\ policies = Idle
    /\ new_policy = Idle
    /\ packed_list = Idle
    /\ packed_sets = Idle
    /\ combined = Idle

\* the generator is run to its end
Split ==
    /\ pc = "split_statement"
    /\ splitted' = split_statement(split_call.statement,
                                   split_call.max_statement_size)
    /\ pc' = "splitted"
    /\ UNCHANGED <<split_call, reduceVars, minifyVars, combineVars, packVars,
                   renderVars, documentVars, writeVars, parseVars, groupVars,
                   jsonVars>>

SplitNext == Split

SpecSplit == SplitInit /\ [][SplitNext]_vars

(***************************************************************************)
(* Claims about split_statement, under SpecSplit.                          *)
(***************************************************************************)
\* the action names of an action value: the name, or the names of the list
names_of(actions) == actions.elems

RECURSIVE Concatenated(_)
Concatenated(lists) ==
    IF lists = <<>> THEN <<>> ELSE Head(lists) \o Concatenated(Tail(lists))

\* chunkSize = ceil(actionCount / chunks)
ChunkSizeOfNames ==
    CeilDiv(Len(names_of(split_call.statement.action)),
            CeilDiv(20 * tiniest_len(split_call.statement),
                    9 * split_call.max_statement_size))

\* C26: the action names of the fragments, in the order in which they are
\* yielded, are the action names of the statement, every name whole and in
\* one fragment; every fragment has one name at least and chunkSize names
\* at most, and the resource key, resource value and rest of the
\* statement.
C26_SplitPartitionsTheActions ==
    pc = "splitted" =>
        /\ Concatenated([i \in 1..Len(splitted) |->
                            names_of(splitted[i].action)])
               = names_of(split_call.statement.action)
        /\ \A i \in 1..Len(splitted) :
               /\ Len(names_of(splitted[i].action)) >= 1
               /\ Len(names_of(splitted[i].action)) <= ChunkSizeOfNames
               /\ splitted[i].resource_key = split_call.statement.resource_key
               /\ splitted[i].resource = split_call.statement.resource
               /\ splitted[i].rest = split_call.statement.rest

\* what C26 states holds of the statements whose actions are a list
SplitPartitionsTheActionsOfAList ==
    split_call.statement.action.kind = "list" => C26_SplitPartitionsTheActions


\* C27: when the statement is longer than max_statement_size, every
\* fragment that split_statement yields is no longer than
\* max_statement_size.
C27_FragmentsFit ==
    (/\ pc = "splitted"
     /\ tiniest_len(split_call.statement) > split_call.max_statement_size)
        => \A i \in 1..Len(splitted) :
               tiniest_len(splitted[i]) <= split_call.max_statement_size

\* a fragment is never longer than the statement it was split from
FragmentsAreNoLongerThanTheStatement ==
    pc = "splitted" =>
        \A i \in 1..Len(splitted) :
            tiniest_len(splitted[i]) <= tiniest_len(split_call.statement)

(***************************************************************************)
(* The order of the input of combine, under SpecCombine.                   *)
(***************************************************************************)
\* the statements of the input documents, in the order of the input
InputStatements == raw_statements(policies)

\* the same statements in every order, in one document or in a document
\* for each
Rearranged ==
    UNION {Layouts([i \in 1..Len(order) |-> InputStatements[order[i]]]) :
              order \in Orderings(1..Len(InputStatements))}

\* C28: when the merged document fits the cap, combine returns the same
\* document, with the same statements in the same order, for every order
\* of the input documents and of the statements in them.
C28_OrderOfInputIsForgotten ==
    (pc = "returned" /\ MergedFitsCap) =>
        \A documents \in Rearranged :
            /\ ~Unshrinkable(render(minify(documents)))
            /\ <<render(minify(documents))>> = combined.policies

\* a resource of the input has a wildcard
HasWildcardResource ==
    \E i \in 1..Len(InputStatements) :
        \E resource \in to_set(InputStatements[i].resource) :
            IsWildcard(resource)

\* what C28 states holds when no resource of the input has a wildcard
OrderOfInputIsForgottenWithoutWildcards ==
    ~HasWildcardResource => C28_OrderOfInputIsForgotten


(***************************************************************************)
(* The round trip of a statement through as_json, under SpecParse.         *)
(***************************************************************************)
\* C29: parsing what as_json() returned gives a statement with the same
\* action key, action set, resource key, resource value and rest as the
\* statement rendered, and its as_json() is the same mapping again.
C29_ParsingTheRenderedGivesTheStatement ==
    pc = "parsed_again" =>
        /\ parsed_again.result = "returned"
        /\ parsed_again.value = parsed.value
        /\ Statement_as_json(as_json) = as_json

\* the keys and the rest of the statement come back
KeysAndRestComeBack ==
    pc = "parsed_again" =>
        /\ parsed_again.result = "returned"
        /\ parsed_again.value.action_key = parsed.value.action_key
        /\ parsed_again.value.resource_key = parsed.value.resource_key
        /\ parsed_again.value.rest = parsed.value.rest

\* the reduction left every action in place, and the resource value is not
\* a list of one element
NothingWasAbsorbed ==
    /\ as_json[parsed.value.action_key].kind = "list" =>
           Len(as_json[parsed.value.action_key].elems)
               = Cardinality(parsed.value.action_value)
    /\ as_json[parsed.value.resource_key].kind = "list" =>
           Len(as_json[parsed.value.resource_key].elems) > 1

\* what C29 states holds when no wildcard absorbed an element
RoundTripWhenNothingWasAbsorbed ==
    (pc = "parsed_again" /\ NothingWasAbsorbed)
        => C29_ParsingTheRenderedGivesTheStatement


(***************************************************************************)
(* What reduce keeps covered, under SpecReduce.                            *)
(***************************************************************************)
\* an element of the result is the element ignoring case, or is a wildcard
\* whose pattern matches it
Covered(x) ==
    \E y \in Kept :
        \/ SameIgnoringCase(x, y)
        \/ IsWildcard(y) /\ GlobMatches(y, x)

\* two wildcards of the set, different ignoring case, whose compiled
\* patterns match each other's spelling
MutualWildcards ==
    \E x, y \in items :
        /\ ~SameIgnoringCase(x, y)
        /\ IsWildcard(x) /\ IsWildcard(y)
        /\ PatternMatches(x, y) /\ PatternMatches(y, x)

\* C30: the result of reduce is not empty, and every element of the set is
\* equal ignoring case to an element of the result or matched by the
\* wildcard of an element of the result, also when two wildcards of the
\* set match each other.
C30_NothingLosesItsCover ==
    Reduced =>
        /\ Kept # {}
        /\ \A x \in items : Covered(x)

\* the result is not empty when no two wildcards match each other
ResultIsNotEmptyWithoutMutualWildcards ==
    (Reduced /\ ~MutualWildcards) => Kept # {}

\* a wildcard of the set has a "."
DotInWildcard == \E x \in items : IsWildcard(x) /\ Dot \in SeqToSet(x)

\* what C30 states holds for the sets without two wildcards that match each
\* other and without a "." in a wildcard
CoverIsKeptWithoutMutualWildcardsAndDots ==
    (Reduced /\ ~MutualWildcards /\ ~DotInWildcard)
        => C30_NothingLosesItsCover

=============================================================================
